---- MODULE Spec2Model ----
(***************************************************************************)
(* A model of llmverify: the configuration loader (config loader module),  *)
(* the configuration types (types/config) and the verification             *)
(* orchestrator verify() (src/verify.ts).                                  *)
(*                                                                         *)
(* JavaScript objects are functions from field names to values; a missing  *)
(* field is a name outside the DOMAIN.  An optional value (undefined/null  *)
(* or a value) is a sequence of length 0 or 1.                             *)
(***************************************************************************)
EXTENDS Integers, Sequences, FiniteSets, TLC

\* ------------------------------------------------------------------------
\* Bounds of the model
\* ------------------------------------------------------------------------

\* Content lengths are taken within Slack of 0 and of each size limit.
Slack == 1

\* The plugin registry holds at most MaxPlugins plugins.
MaxPlugins == 2

\* ------------------------------------------------------------------------
\* JavaScript values
\* ------------------------------------------------------------------------

\* The numbers NaN and Infinity, which no length or parsed digit string equals.
NaN == 0 - 1

Infinity == 0 - 2

\* a > b on JavaScript numbers.
Gt(a, b) ==
  IF a = NaN \/ b = NaN THEN FALSE
  ELSE IF a = Infinity THEN b # Infinity
  ELSE IF b = Infinity THEN FALSE
  ELSE a > b

\* The truthiness of a JavaScript number.
TruthyNum(n) == n # 0 /\ n # NaN

None == << >>

Some(x) == << x >>

Has(o, k) == k \in DOMAIN o

\* The empty object {}.
EmptyObj == [k \in {} |-> TRUE]

\* Object spread { ...a, ...b }.
Spread(a, b) ==
  [k \in (DOMAIN a) \cup (DOMAIN b) |-> IF k \in DOMAIN b THEN b[k] ELSE a[k]]

\* Object spread { ...a, ...o?.k }: spreading undefined adds nothing.
SpreadField(a, o, k) == IF Has(o, k) THEN Spread(a, o[k]) ELSE a

\* ------------------------------------------------------------------------
\* types/config
\* ------------------------------------------------------------------------

Tiers == {"free", "team", "professional", "enterprise"}

DEFAULT_CONFIG ==
  [ tier |-> "free",
    privacy |-> [allowNetworkRequests |-> FALSE, telemetryEnabled |-> FALSE],
    engines |->
      [ hallucination |-> [enabled |-> TRUE],
        consistency |-> [enabled |-> TRUE],
        jsonValidator |-> [enabled |-> TRUE],
        csm6 |->
          [ enabled |-> TRUE,
            profile |-> "baseline",
            checks |->
              [ security |-> TRUE, privacy |-> TRUE, safety |-> TRUE,
                fairness |-> FALSE, reliability |-> FALSE,
                transparency |-> TRUE ] ] ],
    performance |->
      [ timeout |-> 30000, maxContentLength |-> 10000,
        cacheEnabled |-> TRUE, cacheTTL |-> 3600 ],
    output |->
      [ verbose |-> FALSE, includeEvidence |-> TRUE,
        includeMethodology |-> TRUE, includeLimitations |-> TRUE ] ]

TIER_LIMITS ==
  [ free |->
      [performance |->
        [ maxContentLength |-> 1000000, timeout |-> 30000,
          cacheEnabled |-> TRUE, cacheTTL |-> 3600 ]],
    team |->
      [performance |->
        [ maxContentLength |-> 1000000, timeout |-> 60000,
          cacheEnabled |-> TRUE, cacheTTL |-> 7200 ]],
    professional |->
      [performance |->
        [ maxContentLength |-> 1000000, timeout |-> 120000,
          cacheEnabled |-> TRUE, cacheTTL |-> 14400 ]],
    enterprise |->
      [performance |->
        [ maxContentLength |-> Infinity, timeout |-> 300000,
          cacheEnabled |-> TRUE, cacheTTL |-> 28800 ]] ]

\* ------------------------------------------------------------------------
\* The configuration loader
\* ------------------------------------------------------------------------

\* The sections mergeWithDefaults merges one level deep.
Sections == {"engines", "performance", "output", "privacy"}

\* The file names searched in the working directory, in order.
SearchPaths == << "llmverify.config.json", ".llmverify.json", "llmverify.json" >>

mergeWithDefaults(config) ==
  LET merged == Spread(DEFAULT_CONFIG, config)
  IN  [k \in DOMAIN merged |->
        IF k \in Sections /\ Has(config, k)
          THEN Spread(DEFAULT_CONFIG[k], config[k])
          ELSE merged[k]]

\* The document of the first search path that exists and parses; None when
\* there is no such file.  dir maps the paths that exist to a file, which is
\* corrupt (JSON.parse throws, the file is skipped) or holds a JSON document.
RECURSIVE FirstParsed(_, _, _)
FirstParsed(dir, paths, i) ==
  IF i > Len(paths) THEN None
  ELSE IF Has(dir, paths[i]) /\ dir[paths[i]].kind = "json"
    THEN Some(dir[paths[i]].json)
    ELSE FirstParsed(dir, paths, i + 1)

\* The paths loadConfigFromFile searches.
searchPaths(configPath) ==
  IF configPath # None THEN << configPath[1] >> ELSE SearchPaths

loadConfigFromFile(dir, configPath) ==
  LET parsed == FirstParsed(dir, searchPaths(configPath), 1)
  IN  IF parsed = None THEN None ELSE Some(mergeWithDefaults(parsed[1]))

Digits == << "0", "1", "2", "3", "4", "5", "6", "7", "8", "9" >>

IsDigit(ch) == \E d \in 1..10 : Digits[d] = ch

DigitValue(ch) == (CHOOSE d \in 1..10 : Digits[d] = ch) - 1

\* parseInt(s, 10) of a string without sign or leading blanks: the value of
\* its longest prefix of digits, NaN when that prefix is empty.
RECURSIVE ParsePrefix(_, _, _)
ParsePrefix(s, i, acc) ==
  IF i > Len(s) \/ ~IsDigit(s[i]) THEN acc
  ELSE ParsePrefix(s, i + 1, acc * 10 + DigitValue(s[i]))

parseInt(s) == IF Len(s) = 0 \/ ~IsDigit(s[1]) THEN NaN ELSE ParsePrefix(s, 1, 0)

\* environ maps each variable to its value: LLMVERIFY_TIER and LLMVERIFY_VERBOSE
\* to a string, LLMVERIFY_MAX_LENGTH to a sequence of characters; an unset
\* variable is the empty string, falsy like it.
loadConfigFromEnv(environ) ==
  LET c1 == IF environ.LLMVERIFY_TIER # ""
              THEN [tier |-> environ.LLMVERIFY_TIER] ELSE EmptyObj
      c2 == IF environ.LLMVERIFY_MAX_LENGTH # << >>
              THEN Spread(c1, [performance |->
                     [maxContentLength |-> parseInt(environ.LLMVERIFY_MAX_LENGTH)]])
              ELSE c1
      c3 == IF environ.LLMVERIFY_VERBOSE # ""
              THEN Spread(c2, [output |->
                     [verbose |-> (environ.LLMVERIFY_VERBOSE = "true")]])
              ELSE c2
  IN  c3

\* loadConfig(options): options is undefined (None) or an object that may
\* hold config and configPath.
loadConfig(dir, environ, options) ==
  LET opts       == IF options = None THEN EmptyObj ELSE options[1]
      configPath == IF Has(opts, "configPath") THEN Some(opts.configPath) ELSE None
      config0    == DEFAULT_CONFIG
      fileConfig == loadConfigFromFile(dir, configPath)
      config1    == IF fileConfig # None
                      THEN mergeWithDefaults(Spread(config0, fileConfig[1]))
                      ELSE config0
      envConfig  == loadConfigFromEnv(environ)
      config2    == mergeWithDefaults(Spread(config1, envConfig))
  IN  IF Has(opts, "config")
        THEN mergeWithDefaults(Spread(config2, opts.config))
        ELSE config2

\* ------------------------------------------------------------------------
\* verify.ts: the pure parts
\* ------------------------------------------------------------------------

ABSOLUTE_MAX == 10 * 1024 * 1024

\* The limit validateInput falls back to when the tier names none.
FALLBACK_MAX == 1000000

\* A content string is described by what verify() reads of it: ws blanks,
\* followed by body non-blank characters, whose most unusual UTF-16 code unit
\* is unit.
Length(content) == content.ws + content.body

\* content.trim().length
TrimLength(content) == content.body

\* The character-class test of validateInput: every code unit of content lies
\* in 0x00..0x7F or in 0x80..0xFFFF.
MatchesCharset(content) ==
  Length(content) = 0 \/ content.unit \in (0..127) \cup (128..65535)

NoError == [kind |-> "none"]

mergeConfig(userConfig) ==
  LET tier == IF Has(userConfig, "tier") /\ userConfig.tier # ""
                THEN userConfig.tier ELSE "free"
      tierConfig == IF Has(TIER_LIMITS, tier) THEN TIER_LIMITS[tier] ELSE EmptyObj
      csm6User == IF Has(userConfig, "engines") /\ Has(userConfig.engines, "csm6")
                    THEN userConfig.engines.csm6 ELSE EmptyObj
      csm6 == Spread(Spread(DEFAULT_CONFIG.engines.csm6, csm6User),
                [checks |-> SpreadField(DEFAULT_CONFIG.engines.csm6.checks,
                                        csm6User, "checks")])
  IN  Spread(Spread(DEFAULT_CONFIG, userConfig),
        [ tier |-> tier,
          privacy |-> SpreadField(DEFAULT_CONFIG.privacy, userConfig, "privacy"),
          engines |-> Spread(SpreadField(DEFAULT_CONFIG.engines, userConfig, "engines"),
                             [csm6 |-> csm6]),
          performance |->
            SpreadField(SpreadField(DEFAULT_CONFIG.performance, tierConfig, "performance"),
                        userConfig, "performance"),
          output |-> Spread(SpreadField(DEFAULT_CONFIG.output, userConfig, "output"),
                            [includeLimitations |-> TRUE]) ])

validatePrivacyCompliance(config) ==
  IF config.tier = "free" /\ config.privacy.allowNetworkRequests
    THEN [kind |-> "PrivacyViolationError",
          message |-> "Free tier cannot enable network requests."]
  ELSE IF config.tier = "free" /\ config.privacy.telemetryEnabled
    THEN [kind |-> "PrivacyViolationError",
          message |-> "Free tier cannot enable telemetry."]
  ELSE NoError

\* The size limit of validateInput: limits.performance?.maxContentLength || 1000000.
TierMaxLength(tier) ==
  LET limits == TIER_LIMITS[tier]
  IN  IF Has(limits, "performance") /\ TruthyNum(limits.performance.maxContentLength)
        THEN limits.performance.maxContentLength
        ELSE FALLBACK_MAX

\* validateInput as faulty: the absolute ceiling is not checked.
validateInputNoCeiling(content, config) ==
  IF Length(content) = 0 \/ TrimLength(content) = 0
    THEN [kind |-> "ValidationError", code |-> "EMPTY_INPUT"]
  ELSE IF ~MatchesCharset(content)
    THEN [kind |-> "ValidationError", code |-> "INVALID_ENCODING"]
  ELSE IF ~Has(TIER_LIMITS, config.tier)
    THEN [kind |-> "TypeError", code |-> "undefined.performance"]
  ELSE IF Gt(Length(content), TierMaxLength(config.tier))
    THEN [kind |-> "ValidationError", code |-> "CONTENT_TOO_LARGE"]
  ELSE NoError

validateInput(content, config) ==
  IF Length(content) = 0 \/ TrimLength(content) = 0
    THEN [kind |-> "ValidationError", code |-> "EMPTY_INPUT"]
  ELSE IF ~MatchesCharset(content)
    THEN [kind |-> "ValidationError", code |-> "INVALID_ENCODING"]
  ELSE IF ~Has(TIER_LIMITS, config.tier)
    \* TIER_LIMITS[config.tier] is undefined: reading .performance throws
    THEN [kind |-> "TypeError", code |-> "undefined.performance"]
  ELSE IF Gt(Length(content), TierMaxLength(config.tier))
    THEN [kind |-> "ValidationError", code |-> "CONTENT_TOO_LARGE"]
  ELSE IF Gt(Length(content), ABSOLUTE_MAX)
    THEN [kind |-> "ValidationError", code |-> "CONTENT_TOO_LARGE"]
  ELSE NoError

\* The engines in the order verify() starts them.
EngineOrder == << "hallucination", "consistency", "json", "csm6" >>

Engines == {EngineOrder[i] : i \in 1..Len(EngineOrder)}

\* The key of config.engines that enables an engine.
EngineKey(e) == IF e = "json" THEN "jsonValidator" ELSE e

\* context?.skipEngines?.includes(e)
Skipped(context, e) ==
  context # None /\ Has(context[1], "skipEngines") /\ e \in context[1].skipEngines

\* context?.isJSON
IsJSON(context) == context # None /\ Has(context[1], "isJSON") /\ context[1].isJSON

\* The condition under which verify() starts engine e.
ShouldRun(e, config, context) ==
  /\ config.engines[EngineKey(e)].enabled
  /\ (e = "json" => IsJSON(context))
  /\ ~Skipped(context, e)

\* enginesUsed after the four blocks: the engines started, in start order.
EnginesUsed(config, context) ==
  SelectSeq(EngineOrder, LAMBDA e : ShouldRun(e, config, context))

\* notChecked after the four blocks: the JSON block has no else branch.
NotChecked(config, context) ==
  SelectSeq(EngineOrder, LAMBDA e : e # "json" /\ ~ShouldRun(e, config, context))

\* [...new Set(list)]: the first occurrence of each element, in order.
RECURSIVE Dedup(_)
Dedup(list) ==
  IF list = << >> THEN << >>
  ELSE LET init == Dedup(SubSeq(list, 1, Len(list) - 1))
           last == list[Len(list)]
       IN  IF \E i \in 1..Len(init) : init[i] = last THEN init ELSE Append(init, last)

\* ------------------------------------------------------------------------
\* The engines, the risk scoring engine and the plugin registry
\* ------------------------------------------------------------------------

\* ConsistencyEngine.LIMITATIONS
CONSISTENCY_LIMITATIONS ==
  << "Pattern-based consistency checking",
     "May miss subtle contradictions",
     "English language only",
     "Context-dependent accuracy",
     "Requires sufficient text length for meaningful analysis" >>

\* The limitations an engine's result carries.
LIMITATIONS(e) ==
  CASE e = "consistency" -> CONSISTENCY_LIMITATIONS
    [] e = "hallucination" ->
         << "Pattern-based detection only", "No ground truth verification",
            "English language only" >>
    [] e = "json" -> << "Structural validation only" >>
    [] e = "csm6" -> << "Pattern-based detection only", "Context-dependent accuracy" >>

\* An engine's result: a pure function of the engine's input, kept as the
\* input it was computed from, with the limitations it carries.
EngineResult(e, content) ==
  [engine |-> e, of |-> content, limitations |-> LIMITATIONS(e)]

\* RiskScoringEngine.calculate(result): a pure function of the engine slots
\* filled when it is called, kept as those slots.
calculate(slots) == [calculatedFrom |-> slots]

\* PluginRegistry.executeAll, as faulty: it stops at the first plugin that throws
\* and rethrows.
executeAllUnisolated(registered, throwing) ==
  LET firstBad == IF throwing \cap (1..registered) = {} THEN registered + 1
                  ELSE CHOOSE i \in throwing \cap (1..registered) :
                         \A j \in throwing \cap (1..registered) : i <= j
  IN  [ ran     |-> 1..(IF firstBad > registered THEN registered ELSE firstBad),
        results |-> [i \in 1..(firstBad - 1) |-> [plugin |-> i]],
        rejected |-> firstBad <= registered ]

\* PluginRegistry.executeAll: runs every registered plugin (1..registered);
\* a plugin that throws is caught and left out of the results.
executeAll(registered, throwing) ==
  [ ran     |-> 1..registered,
    results |-> SelectSeq([i \in 1..registered |-> [plugin |-> i]],
                          LAMBDA r : r.plugin \notin throwing),
    rejected |-> FALSE ]

\* ------------------------------------------------------------------------
\* The inputs of the model
\* ------------------------------------------------------------------------

File(json) == [kind |-> "json", json |-> json]

Corrupt == [kind |-> "corrupt"]

\* The working directories verify() is run in.
FileSystems ==
  { EmptyObj,
    "llmverify.config.json" :> File([privacy |-> [allowNetworkRequests |-> TRUE]]),
    ".llmverify.json" :> File([tier |-> "team", privacy |-> [telemetryEnabled |-> TRUE]]),
    ("llmverify.config.json" :> Corrupt)
      @@ ("llmverify.json" :> File([privacy |-> [telemetryEnabled |-> TRUE]])),
    "llmverify.config.json" :>
      File([engines |-> [jsonValidator |-> [enabled |-> FALSE],
                         csm6 |-> [enabled |-> FALSE]]]) }

Env(tier, maxLength, verbose) ==
  [LLMVERIFY_TIER |-> tier, LLMVERIFY_MAX_LENGTH |-> maxLength,
   LLMVERIFY_VERBOSE |-> verbose]

\* The environments verify() is run in.
Envs == {Env(t, << >>, "") : t \in {"", "enterprise", "bogus"}}

SizeLimits == {FALLBACK_MAX, ABSOLUTE_MAX}

Lengths ==
  (0..Slack) \cup {l + d : l \in SizeLimits, d \in (0 - Slack)..Slack}

\* Contents: all blanks or no blank, of each length, made of the letter "A"
\* (code unit 65); the shortest ones also with a lone surrogate (55296).
Contents ==
  UNION {{[ws |-> w, body |-> n - w, unit |-> u] :
            w \in {0, n}, u \in IF n <= Slack THEN {65, 55296} ELSE {65}} :
         n \in Lengths}

\* The config argument of a verify() call.
CallConfigs ==
  { None,
    Some([tier |-> "free", privacy |-> [allowNetworkRequests |-> TRUE]]),
    Some([privacy |-> [telemetryEnabled |-> TRUE]]),
    Some([engines |-> [consistency |-> [enabled |-> FALSE]]]),
    Some([tier |-> "enterprise"]) }

\* The context argument of a verify() call.
Contexts ==
  { None,
    Some([isJSON |-> TRUE]),
    Some([skipEngines |-> {"hallucination", "json"}]),
    Some([isJSON |-> TRUE, skipEngines |-> {"consistency"}]) }

VerifyOptions ==
  {[content |-> ct, config |-> cf, context |-> cx] :
     ct \in Contents, cf \in CallConfigs, cx \in Contexts}

\* The verify() calls of one behaviour.
Calls == {1, 2}

VARIABLES
  fs,           \* the working directory: path -> file
  env,          \* process.env
  plugins,      \* the number of plugins registered in the plugin registry
  calls,        \* the verify() calls: call -> its local state
  loadOptions,  \* the argument of a direct loadConfig() call
  loaded,       \* the Config that call returned
  http,         \* the HTTP server: the request in hand and its response
  monitor,      \* the clipboard monitor: clipboard, last read, lastClipboard, submissions
  contra,       \* a checkContradictions() call: its argument and what it returned
  consist,      \* a ConsistencyEngine.check() call: what it found and returned
  logger,       \* an AuditLogger: its config, entries and currentDate
  today,        \* the calendar date, in days
  disk,         \* the audit files: path -> the ids of the lines appended
  ret,          \* the log() calls made so far and what the last one returned
  kept,         \* history: the entries logged while enabled since clear()
  auditTrail,   \* the internal audit logger: its records, its file writable
  baseline,     \* the baseline storage: observations folded, drift checks
  singleton,    \* defaultLogger of getAuditLogger(): which instance it points to
  slog,         \* the structured logger: its timer, and the calls that bracket it
  report,       \* a /verify response on its way through the monitor's explainRisk
  polling       \* the monitor's overlapping poll callbacks

\* The state of the AuditLogger and of what it reads and writes.
auditVars == << logger, today, disk, ret, kept >>

\* The state of the components other than verify() and the config loader.
\* The components that are driven by a specification of their own.
soloVars == << singleton, slog, report, polling >>

\* The calls of functions that keep no state, and the components above.
pureVars == << contra, consist, soloVars >>

others == << http, monitor, pureVars, auditVars >>

\* The process-wide facilities verify() records in.
facilities == << auditTrail, baseline >>

vars == << fs, env, plugins, calls, loadOptions, loaded, others, facilities >>

\* The HTTP server has received no request.
HttpIdle == [pc |-> "listening", req |-> None, res |-> None, verifyCalls |-> 0]

\* The clipboard monitor has not polled; the clipboard is empty.
MonitorIdle ==
  [ clipboard     |-> [text |-> "", body |-> 0, pad |-> 0],
    lastClipboard |-> [text |-> "", body |-> 0],
    read          |-> [text |-> "", body |-> 0],
    submitted     |-> << >>,
    polls         |-> 0 ]

\* checkContradictions() has not been called.
ContraIdle == [given |-> << >>, claims |-> << >>, updated |-> None]

\* ConsistencyEngine.check() has not been called.
ConsistIdle ==
  [sections |-> << >>,
   measured |-> [avgSimilarity |-> 100, sentimentDrift |-> FALSE,
                 styleDrift |-> FALSE, lengthDrift |-> FALSE],
   result   |-> None]

\* getAuditLogger() has not been called: defaultLogger is null.
SingletonIdle == [instance |-> 0, made |-> 0, got |-> None]

\* The structured logger has opened no request scope.
SlogIdle ==
  [ clock   |-> 0,
    timer   |-> None,
    minted  |-> 0,
    scopes  |-> [c \in Calls |-> [pc |-> "idle", requestId |-> 0,
                                   started |-> 0, ended |-> 0, elapsed |-> None,
                                   duration |-> 0]] ]

\* No /verify response is in hand.
ReportIdle == [result |-> None, response |-> None, printed |-> None]

\* The monitor's interval has not fired.
PollingIdle ==
  [ clipboard     |-> [text |-> "", body |-> 0, pad |-> 0],
    copies        |-> 0,
    changes       |-> 0,
    lastClipboard |-> [text |-> "", body |-> 0],
    callbacks     |-> << >>,
    submitted     |-> << >> ]

\* The components driven by a specification of their own are at rest.
SoloIdle ==
  /\ singleton = SingletonIdle
  /\ slog = SlogIdle
  /\ report = ReportIdle
  /\ polling = PollingIdle

\* No function that keeps no state has been called.
PureIdle == contra = ContraIdle /\ consist = ConsistIdle /\ SoloIdle

\* No AuditLogger has been constructed.
AuditIdle ==
  /\ logger = None
  /\ today = 0
  /\ disk = << >>
  /\ ret = [logs |-> 0, nextId |-> 1, last |-> None, failed |-> FALSE, threw |-> FALSE,
                 recent |-> None]
  /\ kept = << >>

\* Nothing has been recorded in the internal audit logger and the baseline
\* storage.
FacilitiesIdle ==
  /\ auditTrail = [records |-> << >>, writable |-> TRUE]
  /\ baseline = [samples |-> 0, checks |-> 0]

\* The other components at rest.
OthersIdle ==
  /\ http = HttpIdle
  /\ monitor = MonitorIdle
  /\ PureIdle
  /\ AuditIdle
  /\ FacilitiesIdle

\* ------------------------------------------------------------------------
\* verify(): the steps of one call
\* ------------------------------------------------------------------------

\* The locals of a call at its first statement.  ops lists the operations the
\* call has made on the structured logger, the audit logger and the baseline
\* storage, in order.
NewCall(options, config) ==
  [ pc            |-> "running",
    options       |-> options,
    config        |-> config,
    enginesUsed   |-> << >>,
    pending       |-> {},
    slots         |-> [e \in Engines |-> None],
    limitations   |-> << >>,
    notChecked    |-> << >>,
    rejected      |-> None,
    pluginsRan    |-> {},
    pluginsThrew  |-> {},
    pluginResults |-> << >>,
    ops           |-> << >>,
    outcome       |-> [kind |-> "pending"] ]

\* A call that has not been made yet: its locals hold no value of the program.
IdleCall ==
  [NewCall([content |-> [ws |-> 0, body |-> 0, unit |-> 65],
            config |-> None, context |-> None],
           DEFAULT_CONFIG)
     EXCEPT !.pc = "idle"]

\* The call throws err to its caller.
Threw(call, err) == [call EXCEPT !.pc = "threw", !.outcome = err]

\* The four engine blocks: each engine that should run is started and pushed
\* on enginesUsed, the others but the JSON validator are pushed on notChecked.
EnginesStarted(call) ==
  LET used == EnginesUsed(call.config, call.options.context)
  IN  [call EXCEPT
        !.pc = "awaitEngines",
        !.enginesUsed = used,
        !.pending = {used[i] : i \in 1..Len(used)},
        !.notChecked = NotChecked(call.config, call.options.context)]

\* verify() as faulty: the engines are started before the privacy gate and the
\* input validation.
StartOutcomeLateGate(fsv, envv, options) ==
  LET config == mergeConfig(loadConfig(fsv, envv, options.config))
      call0  == [NewCall(options, config) EXCEPT
                   !.ops = << "logger.startRequest", "logger.info" >>]
      perr   == validatePrivacyCompliance(config)
      verr   == validateInput(options.content, config)
  IN  IF perr.kind # "none" THEN Threw(call0, perr)
      ELSE IF verr.kind # "none" THEN Threw(EnginesStarted(call0), verr)
      ELSE EnginesStarted(call0)

\* verify() from its first statement to the await of the engines: the request
\* scope is opened and the start is logged; the config is loaded, with
\* options.config handed to loadConfig as its options argument, and merged;
\* the privacy gate; the input validation; the engines are started.
StartOutcome(fsv, envv, options) ==
  LET config == mergeConfig(loadConfig(fsv, envv, options.config))
      call0  == [NewCall(options, config) EXCEPT
                   !.ops = << "logger.startRequest", "logger.info" >>]
      perr   == validatePrivacyCompliance(config)
      verr   == validateInput(options.content, config)
  IN  IF perr.kind # "none" THEN Threw(call0, perr)
      ELSE IF verr.kind # "none" THEN Threw(call0, verr)
      ELSE EnginesStarted(call0)

\* The then-callbacks as faulty: every engine's result is stored in the
\* hallucination slot.
StoreResultOneSlot(slots, e, res) ==
  [slots EXCEPT !["hallucination"] = Some(res)]

\* The then-callback of engine e: result.<e> = res.
StoreResult(slots, e, res) == [slots EXCEPT ![e] = Some(res)]

\* The VerifyResult as faulty: the plugins' results are folded into the risk.
VerifyResultPluginRisk(call, risk, limitations) ==
  [ hallucination |-> call.slots["hallucination"],
    consistency   |-> call.slots["consistency"],
    json          |-> call.slots["json"],
    csm6          |-> call.slots["csm6"],
    risk          |-> IF Len(call.pluginResults) > 0
                        THEN [calculatedFrom |-> call.slots,
                              raisedBy |-> call.pluginResults]
                        ELSE risk,
    meta          |-> [tier |-> call.config.tier, enginesUsed |-> call.enginesUsed],
    limitations   |-> limitations,
    notChecked    |-> call.notChecked ]

\* The VerifyResult verify() returns.
VerifyResult(call, risk, limitations) ==
  [ hallucination |-> call.slots["hallucination"],
    consistency   |-> call.slots["consistency"],
    json          |-> call.slots["json"],
    csm6          |-> call.slots["csm6"],
    risk          |-> risk,
    meta          |-> [tier |-> call.config.tier, enginesUsed |-> call.enginesUsed],
    limitations   |-> limitations,
    notChecked    |-> call.notChecked ]

\* The catch block as faulty: it returns what the engines have produced so far.
CatchOutcomePartial(call, error) ==
  [call EXCEPT
    !.pc = "returned",
    !.ops = Append(@, "logger.error"),
    !.outcome = [kind |-> "VerifyResult",
                 result |-> VerifyResult(call, calculate(call.slots),
                                         Dedup(call.limitations))]]

\* The catch block: the error is logged and wrapped in a VerificationError.
CatchOutcome(call, error) ==
  [call EXCEPT
    !.pc = "threw",
    !.ops = Append(@, "logger.error"),
    !.outcome = [kind |-> "VerificationError",
                 message |-> << "Verification failed: ", error.message >>]]

\* verify() after the plugins as faulty: no audit record is made.
FinishOutcomeNoAudit(call, drifts) ==
  LET risk == calculate(call.slots)
      limitations == Dedup(call.limitations)
  IN  [call EXCEPT
        !.pc = "returned",
        !.limitations = limitations,
        !.ops = @ \o (IF Len(call.pluginResults) > 0 THEN << "logger.info" >> ELSE << >>)
                  \o << "logger.endRequest", "logger.info",
                        "baseline.updateBaseline", "baseline.checkDrift" >>
                  \o (IF drifts THEN << "logger.warn" >> ELSE << >>),
        !.outcome = [kind |-> "VerifyResult",
                     result |-> VerifyResult(call, risk, limitations)]]

\* verify() after the plugins: the risk, the de-duplicated limitations, the
\* completion log, the audit record, the baseline observation, the drift
\* check with its warning, and the return.
FinishOutcome(call, drifts) ==
  LET risk == calculate(call.slots)
      limitations == Dedup(call.limitations)
  IN  [call EXCEPT
        !.pc = "returned",
        !.limitations = limitations,
        !.ops = @ \o (IF Len(call.pluginResults) > 0 THEN << "logger.info" >> ELSE << >>)
                  \o << "logger.endRequest", "logger.info", "audit.logVerification",
                        "baseline.updateBaseline", "baseline.checkDrift" >>
                  \o (IF drifts THEN << "logger.warn" >> ELSE << >>),
        !.outcome = [kind |-> "VerifyResult",
                     result |-> VerifyResult(call, risk, limitations)]]

\* logVerification as faulty: a failure of the append to the audit file is
\* thrown to verify().
logVerificationUnguarded(trail, c) ==
  [trail |-> [trail EXCEPT !.records = Append(@, [call |-> c,
                                                 persisted |-> trail.writable])],
   threw |-> ~trail.writable]

\* The internal audit logger's logVerification for call c: the record is kept,
\* it is appended to the audit file if that can be written, and nothing is
\* thrown.
logVerification(trail, c) ==
  [trail |-> [trail EXCEPT !.records = Append(@, [call |-> c,
                                                 persisted |-> trail.writable])],
   threw |-> FALSE]

\* The baseline storage folds one observation into the baseline.
updateBaseline(b) == [b EXCEPT !.samples = @ + 1]

\* The baseline storage compares one observation with the baseline.
checkDrift(b) == [b EXCEPT !.checks = @ + 1]

\* verify() when logVerification throws: nothing catches it.
AuditThrew(call) ==
  [call EXCEPT
    !.pc = "threw",
    !.ops = @ \o (IF Len(call.pluginResults) > 0 THEN << "logger.info" >> ELSE << >>)
              \o << "logger.endRequest", "logger.info", "audit.logVerification" >>,
    !.outcome = [kind |-> "Error", message |-> "audit write failed"]]

\* The messages of the errors an engine throws.
EngineErrors == {"engine crashed", "out of memory"}

\* A call enters verify().
VerifyStart(c) ==
  /\ calls[c].pc = "idle"
  /\ \E options \in VerifyOptions :
       calls' = [calls EXCEPT ![c] = StartOutcome(fs, env, options)]
  /\ UNCHANGED << fs, env, plugins, loadOptions, loaded, others, facilities >>

\* A started engine completes: its result is stored and its limitations are
\* pushed on the result's limitations.
EngineResolve(c, e) ==
  /\ calls[c].pc = "awaitEngines"
  /\ e \in calls[c].pending
  /\ LET res == EngineResult(e, calls[c].options.content)
     IN  calls' = [calls EXCEPT
                    ![c].pending = @ \ {e},
                    ![c].slots = StoreResult(@, e, res),
                    ![c].limitations = @ \o res.limitations]
  /\ UNCHANGED << fs, env, plugins, loadOptions, loaded, others, facilities >>

\* A started engine throws: Promise.all rejects and the catch block runs.
EngineReject(c, e) ==
  /\ calls[c].pc = "awaitEngines"
  /\ e \in calls[c].pending
  /\ \E m \in EngineErrors :
       calls' = [calls EXCEPT
                  ![c] = CatchOutcome([calls[c] EXCEPT
                                         !.pending = @ \ {e},
                                         !.rejected = Some([engine |-> e, message |-> m])],
                                      [engine |-> e, message |-> m])]
  /\ UNCHANGED << fs, env, plugins, loadOptions, loaded, others, facilities >>

\* Every started engine has completed: the plugins are executed.
ExecutePlugins(c) ==
  /\ calls[c].pc = "awaitEngines"
  /\ calls[c].pending = {}
  /\ \E throwing \in SUBSET (1..plugins) :
       LET r == executeAll(plugins, throwing)
       IN  calls' = [calls EXCEPT
                      ![c] = IF r.rejected
                               THEN CatchOutcome([calls[c] EXCEPT
                                                    !.pluginsRan = r.ran,
                                                    !.pluginsThrew = throwing],
                                                 [message |-> "plugin failed"])
                               ELSE [calls[c] EXCEPT
                                      !.pc = "awaitPlugins",
                                      !.pluginsRan = r.ran,
                                      !.pluginsThrew = throwing,
                                      !.pluginResults = r.results]]
  /\ UNCHANGED << fs, env, plugins, loadOptions, loaded, others, facilities >>

\* The plugins have been executed: the call finishes and returns.
\* The drift check finds a drift or none.
Finish(c) ==
  /\ calls[c].pc = "awaitPlugins"
  /\ \E drifts \in BOOLEAN :
       LET logged == logVerification(auditTrail, c)
       IN  IF logged.threw
             THEN /\ calls' = [calls EXCEPT ![c] = AuditThrew(calls[c])]
                  /\ UNCHANGED facilities
             ELSE /\ calls' = [calls EXCEPT ![c] = FinishOutcome(calls[c], drifts)]
                  /\ auditTrail' = logged.trail
                  /\ baseline' = checkDrift(updateBaseline(baseline))
  /\ UNCHANGED << fs, env, plugins, loadOptions, loaded, others >>

Init ==
  /\ fs \in FileSystems
  /\ env \in Envs
  /\ plugins \in 0..MaxPlugins
  /\ calls = [c \in Calls |-> IdleCall]
  /\ loadOptions = None
  /\ loaded = None
  /\ OthersIdle

\* One call is made and awaited.
Next ==
  \/ VerifyStart(1)
  \/ \E e \in Engines : EngineResolve(1, e)
  \/ \E e \in Engines : EngineReject(1, e)
  \/ ExecutePlugins(1)
  \/ Finish(1)

Spec == Init /\ [][Next]_vars

\* ------------------------------------------------------------------------
\* loadConfig() called directly
\* ------------------------------------------------------------------------

\* The working directories loadConfig() is run in.
ConfigFileSystems ==
  FileSystems \cup
  { "llmverify.config.json" :> File([performance |-> [timeout |-> 5000]]),
    (".llmverify.json" :>
       File([performance |-> [timeout |-> 5000, maxContentLength |-> 777],
             output |-> [includeEvidence |-> FALSE]]))
      @@ ("custom.json" :> File([tier |-> "professional",
                                 output |-> [includeMethodology |-> FALSE]])) }

\* The environments loadConfig() is run in.
ConfigEnvs ==
  {Env(t, m, v) : t \in {"", "team"},
                  m \in {<< >>, << "5", "0" >>, << "7", "k" >>, << "x" >>},
                  v \in {"", "true", "1"}}

\* The options argument of a loadConfig() call.
LoadOptions ==
  { None,
    Some([configPath |-> "custom.json"]),
    Some([config |-> [performance |-> [cacheTTL |-> 60]]]),
    Some([config |-> [tier |-> "enterprise", output |-> [verbose |-> FALSE]]]),
    Some([config |-> [engines |-> [consistency |-> [enabled |-> FALSE]]],
          configPath |-> "custom.json"]) }

\* loadConfig(loadOptions) is called and returns.
LoadConfigCall ==
  /\ loaded = None
  /\ loaded' = Some(loadConfig(fs, env, loadOptions))
  /\ UNCHANGED << fs, env, plugins, calls, loadOptions, others, facilities >>

InitConfig ==
  /\ fs \in ConfigFileSystems
  /\ env \in ConfigEnvs
  /\ plugins = 0
  /\ calls = [c \in Calls |-> IdleCall]
  /\ loadOptions \in LoadOptions
  /\ loaded = None
  /\ OthersIdle

NextConfig == LoadConfigCall

SpecConfig == InitConfig /\ [][NextConfig]_vars

\* ------------------------------------------------------------------------
\* The claims about the configuration
\* ------------------------------------------------------------------------

\* A partial config sets field f of section s.
SetsField(partial, s, f) == Has(partial, s) /\ Has(partial[s], f)

\* The call-site config of the loadConfig() call, {} when there is none.
CallSiteOf(options) ==
  IF options # None /\ Has(options[1], "config") THEN options[1].config ELSE EmptyObj

\* The document of the config file the loadConfig() call reads, {} when there
\* is none.
FileOf(dir, options) ==
  LET path   == IF options # None /\ Has(options[1], "configPath")
                  THEN Some(options[1].configPath) ELSE None
      parsed == FirstParsed(dir, searchPaths(path), 1)
  IN  IF parsed = None THEN EmptyObj ELSE parsed[1]

\* The value of field f of section s given by the highest-precedence source
\* that sets it: call site, then environment, then file, then defaults.
ByPrecedence(dir, environ, options, s, f) ==
  IF SetsField(CallSiteOf(options), s, f) THEN CallSiteOf(options)[s][f]
  ELSE IF SetsField(loadConfigFromEnv(environ), s, f)
    THEN loadConfigFromEnv(environ)[s][f]
  ELSE IF SetsField(FileOf(dir, options), s, f) THEN FileOf(dir, options)[s][f]
  ELSE DEFAULT_CONFIG[s][f]

\* C10: in the Config loadConfig returns, every field of the sections engines,
\* performance, output and privacy has the value given by the highest-precedence
\* source that sets that field (defaults < file < environment < call site).
C10_DeepMergeByPrecedence ==
  loaded # None =>
    \A s \in Sections : \A f \in DOMAIN DEFAULT_CONFIG[s] :
      /\ Has(loaded[1][s], f)
      /\ loaded[1][s][f] = ByPrecedence(fs, env, loadOptions, s, f)


\* ------------------------------------------------------------------------
\* The claims about verify()
\* ------------------------------------------------------------------------

Member(x, list) == \E i \in 1..Len(list) : list[i] = x

Range(list) == {list[i] : i \in 1..Len(list)}

\* The tier the documented precedence gives a call with call-site config cc:
\* call site, then environment, then file, then the default.
DocumentedTier(cc) ==
  IF Has(cc, "tier") THEN cc.tier
  ELSE IF env.LLMVERIFY_TIER # "" THEN env.LLMVERIFY_TIER
  ELSE IF Has(FileOf(fs, None), "tier") THEN FileOf(fs, None).tier
  ELSE "free"

\* The config supplied with the call asks for network requests or telemetry
\* on what resolves to the free tier.
SuppliedViolatesPrivacy(call) ==
  /\ call.options.config # None
  /\ LET cc == call.options.config[1]
     IN  /\ DocumentedTier(cc) = "free"
         /\ \/ SetsField(cc, "privacy", "allowNetworkRequests")
                 /\ cc.privacy.allowNetworkRequests
            \/ SetsField(cc, "privacy", "telemetryEnabled")
                 /\ cc.privacy.telemetryEnabled

\* The content fails the input validation whatever the tier.
ContentInvalid(content) ==
  TrimLength(content) = 0 \/ Length(content) > ABSOLUTE_MAX

\* C1: a call whose supplied config resolves to the free tier with
\* allowNetworkRequests or telemetryEnabled true fails with a privacy violation
\* and starts no engine.
C1_SuppliedPrivacyViolationFails ==
  \A c \in Calls :
    calls[c].pc # "idle" /\ SuppliedViolatesPrivacy(calls[c]) =>
      /\ calls[c].outcome.kind = "PrivacyViolationError"
      /\ calls[c].enginesUsed = << >>

\* The call failed the privacy gate or the input validation.
GateFailure(call) ==
  /\ call.pc = "threw"
  /\ call.outcome.kind \in {"PrivacyViolationError", "ValidationError"}

NoEngineStarted(call) ==
  /\ call.enginesUsed = << >>
  /\ call.pending = {}
  /\ \A e \in Engines : call.slots[e] = None

\* C2 as stated: when a call fails the privacy gate or the input validation it
\* has started no engine and made no structured-logger, audit-logger or
\* baseline-storage operation.
C2_NoSideChannelBeforeFailure ==
  \A c \in Calls :
    GateFailure(calls[c]) => NoEngineStarted(calls[c]) /\ calls[c].ops = << >>

\* C2 as amended: when a call fails the privacy gate or the input validation it
\* has started no engine and made no audit-logger or baseline-storage
\* operation; on the structured logger it has made exactly startRequest and
\* the "Verification started" info entry.
C2_OnlyStartLoggedBeforeFailure ==
  \A c \in Calls :
    GateFailure(calls[c]) =>
      /\ NoEngineStarted(calls[c])
      /\ calls[c].ops = << "logger.startRequest", "logger.info" >>

C2_Witness ==
  \E c \in Calls :
    /\ GateFailure(calls[c])
    /\ calls[c].outcome.kind = "ValidationError"
    /\ calls[c].outcome.code = "CONTENT_TOO_LARGE"

\* C3: a call that violates the free-tier privacy rule and carries content that
\* fails the input validation reports the privacy violation, never the
\* validation error.
C3_PrivacyBeforeValidation ==
  \A c \in Calls :
    /\ calls[c].pc = "threw"
    /\ SuppliedViolatesPrivacy(calls[c])
    /\ ContentInvalid(calls[c].options.content)
    => calls[c].outcome.kind = "PrivacyViolationError"

\* C4: once an engine has thrown, the call has failed with a VerificationError
\* whose message holds the engine's message, and has returned no VerifyResult.
C4_EngineFailureAborts ==
  \A c \in Calls :
    calls[c].rejected # None =>
      /\ calls[c].pc = "threw"
      /\ calls[c].outcome.kind = "VerificationError"
      /\ calls[c].outcome.message =
           << "Verification failed: ", calls[c].rejected[1].message >>

C4_Witness ==
  \E c \in Calls :
    /\ calls[c].rejected # None
    /\ \E e \in Engines : calls[c].slots[e] # None
    /\ calls[c].pc = "threw"

\* C5: a plugin that throws neither fails the call nor keeps another registered
\* plugin from running; the call returns its VerifyResult.
C5_PluginFailureIsolated ==
  \A c \in Calls :
    calls[c].pluginsThrew # {} =>
      /\ calls[c].pluginsRan = 1..plugins
      /\ calls[c].pc \in {"awaitPlugins", "returned"}
      /\ calls[c].pc = "returned" => calls[c].outcome.kind = "VerifyResult"
      /\ calls[c].pc = "awaitPlugins" => calls[c].outcome.kind = "pending"

C5_Witness ==
  \E c \in Calls :
    /\ calls[c].pluginsThrew # {}
    /\ calls[c].pluginsRan \ calls[c].pluginsThrew # {}
    /\ calls[c].pc = "returned"
    /\ calls[c].outcome.kind = "VerifyResult"

\* The size rule as the claim states it: over 1,000,000 characters on the free,
\* team and professional tiers, or over 10 MiB on any tier.
OverClaimedLimit(tier, len) ==
  \/ tier \in {"free", "team", "professional"} /\ len > 1000000
  \/ len > 10 * 1024 * 1024

RejectedTooLarge(call) ==
  /\ call.pc = "threw"
  /\ call.outcome.kind = "ValidationError"
  /\ call.outcome.code = "CONTENT_TOO_LARGE"

\* C6 as stated: a call is rejected with CONTENT_TOO_LARGE exactly when its
\* content is over the tier's limit or over 10 MiB.
C6_TooLargeExactly ==
  \A c \in Calls :
    calls[c].pc # "idle" /\ calls[c].config.tier \in Tiers =>
      (RejectedTooLarge(calls[c]) <=>
         OverClaimedLimit(calls[c].config.tier, Length(calls[c].options.content)))

\* C6 as amended: a call that passes the privacy gate and whose content is not
\* empty or whitespace-only is rejected with CONTENT_TOO_LARGE exactly when its
\* content is over the tier's limit or over 10 MiB.
C6_TooLargeExactlyAfterEarlierChecks ==
  \A c \in Calls :
    /\ calls[c].pc # "idle"
    /\ calls[c].config.tier \in Tiers
    /\ calls[c].outcome.kind # "PrivacyViolationError"
    /\ TrimLength(calls[c].options.content) > 0
    => (RejectedTooLarge(calls[c]) <=>
          OverClaimedLimit(calls[c].config.tier, Length(calls[c].options.content)))

C6_Witness ==
  \E c \in Calls :
    /\ RejectedTooLarge(calls[c])
    /\ calls[c].config.tier = "enterprise"
    /\ Length(calls[c].options.content) = ABSOLUTE_MAX + 1

\* C7: in a returned VerifyResult every engine is in exactly one of
\* meta.enginesUsed and notChecked: in enginesUsed if it ran, in notChecked if
\* it did not.
C7_UsedOrNotChecked ==
  \A c \in Calls :
    calls[c].pc = "returned" =>
      LET r == calls[c].outcome.result
      IN  \A e \in Engines :
            /\ Member(e, r.meta.enginesUsed) # Member(e, r.notChecked)
            /\ Member(e, r.meta.enginesUsed) <=> calls[c].slots[e] # None

\* The engines a call with this config and context runs.
RunSet(call) ==
  {e \in Engines : ShouldRun(e, call.config, call.options.context)}

\* The limitations of the engines a call runs, in the order the engines are
\* named, each once.
RECURSIVE LimitationsInNameOrder(_, _)
LimitationsInNameOrder(call, i) ==
  IF i = 0 THEN << >>
  ELSE LimitationsInNameOrder(call, i - 1)
         \o (IF EngineOrder[i] \in RunSet(call)
               THEN LIMITATIONS(EngineOrder[i]) ELSE << >>)

\* What the result of a call is when it is a function of the content and the
\* resolved config alone.
ExpectedSlots(call) ==
  [e \in Engines |->
     IF e \in RunSet(call) THEN Some(EngineResult(e, call.options.content)) ELSE None]

SameButLimitations(call) ==
  LET r == call.outcome.result
  IN  /\ r.hallucination = ExpectedSlots(call)["hallucination"]
      /\ r.consistency = ExpectedSlots(call)["consistency"]
      /\ r.json = ExpectedSlots(call)["json"]
      /\ r.csm6 = ExpectedSlots(call)["csm6"]
      /\ r.risk = calculate(ExpectedSlots(call))
      /\ r.meta.enginesUsed = SelectSeq(EngineOrder, LAMBDA e : e \in RunSet(call))
      /\ r.notChecked =
           SelectSeq(EngineOrder, LAMBDA e : e # "json" /\ e \notin RunSet(call))

\* C8 as stated: the returned VerifyResult (engine slots, risk, enginesUsed,
\* notChecked and the limitations in their order) is the same whatever the
\* order in which the engines completed.
C8_SameResultAnyOrder ==
  \A c \in Calls :
    calls[c].pc = "returned" =>
      /\ SameButLimitations(calls[c])
      /\ calls[c].outcome.result.limitations =
           Dedup(LimitationsInNameOrder(calls[c], Len(EngineOrder)))

\* C8 as amended: the engine slots, risk, enginesUsed, notChecked and the set
\* of limitations of the returned VerifyResult are the same whatever the order
\* in which the engines completed; the order of the limitations is that of
\* the engines' completion.
C8_SameResultUpToLimitationOrder ==
  \A c \in Calls :
    calls[c].pc = "returned" =>
      LET lim == calls[c].outcome.result.limitations
      IN  /\ SameButLimitations(calls[c])
          /\ Range(lim) = Range(LimitationsInNameOrder(calls[c], Len(EngineOrder)))
          /\ \A i, j \in 1..Len(lim) : lim[i] = lim[j] => i = j

C8_Witness ==
  \E c \in Calls :
    /\ calls[c].pc = "returned"
    /\ Cardinality(RunSet(calls[c])) >= 3
    /\ calls[c].outcome.result.limitations #
         Dedup(LimitationsInNameOrder(calls[c], Len(EngineOrder)))

\* C9: every field the caller sets in the partial config of the call has the
\* caller's value in the config verify() resolves and acts on; a call-site
\* engines.consistency.enabled = false leaves the consistency engine unrun and
\* listed in notChecked.
C9_CallSiteConfigWins ==
  \A c \in Calls :
    calls[c].pc # "idle" /\ calls[c].options.config # None =>
      LET cc == calls[c].options.config[1]
      IN  /\ Has(cc, "tier") => calls[c].config.tier = cc.tier
          /\ \A s \in Sections \cap DOMAIN cc : \A f \in DOMAIN cc[s] :
               calls[c].config[s][f] = cc[s][f]
          /\ calls[c].pc = "returned" /\ SetsField(cc, "engines", "consistency")
               /\ ~cc.engines.consistency.enabled
             => /\ ~Member("consistency", calls[c].outcome.result.meta.enginesUsed)
                /\ Member("consistency", calls[c].outcome.result.notChecked)

\* ------------------------------------------------------------------------
\* server.ts: the HTTP server
\* ------------------------------------------------------------------------

\* The values of a field of a JSON request body; a missing field reads as
\* undefined.
Undefined == [type |-> "undefined"]

Null == [type |-> "null"]

Num(n) == [type |-> "number", value |-> n]

Str(content) == [type |-> "string", value |-> content]

Obj == [type |-> "object"]

\* The truthiness of a JavaScript value.
Truthy(v) ==
  CASE v.type = "string" -> Length(v.value) > 0
    [] v.type = "number" -> TruthyNum(v.value)
    [] v.type = "object" -> TRUE
    [] OTHER -> FALSE

\* a || b
Or(a, b) == IF Truthy(a) THEN a ELSE b

\* req.body.k
Field(body, k) == IF Has(body, k) THEN body[k] ELSE Undefined

\* error.message of an error verify() throws.
ErrorMessage(err) ==
  IF err.kind = "VerificationError" THEN err.message
  ELSE IF Has(err, "message") THEN << err.message >>
  ELSE << err.code >>

Respond(status, body) == [status |-> status, body |-> body]

\* The handler of POST /verify as faulty: a value that is not a string is
\* answered as an internal failure.
PostVerifyLax(body) ==
  LET inputText == Or(Field(body, "text"), Field(body, "content"))
  IN  IF ~Truthy(inputText)
        THEN [res |-> Some(Respond(400, [error |-> << "Missing required field: text or content" >>])),
              invoke |-> None]
      ELSE IF inputText.type # "string"
        THEN [res |-> Some(Respond(500, [error |-> << "Field \"text\" must be a string" >>])),
              invoke |-> None]
      ELSE [res |-> None,
            invoke |-> Some([content |-> inputText.value,
                             config |-> IF Has(body, "config") THEN Some(body.config) ELSE None,
                             context |-> None])]

\* The handler of POST /verify up to its call of verify(): the response it
\* sends at once, or the options it calls verify() with.
PostVerify(body) ==
  LET inputText == Or(Field(body, "text"), Field(body, "content"))
  IN  IF ~Truthy(inputText)
        THEN [res |-> Some(Respond(400, [error |-> << "Missing required field: text or content" >>])),
              invoke |-> None]
      ELSE IF inputText.type # "string"
        THEN [res |-> Some(Respond(400, [error |-> << "Field \"text\" must be a string" >>])),
              invoke |-> None]
      ELSE [res |-> None,
            invoke |-> Some([content |-> inputText.value,
                             config |-> IF Has(body, "config") THEN Some(body.config) ELSE None,
                             context |-> None])]

\* The handler of POST /verify after verify() has settled: the result as a
\* success, or the catch block's answer.
VerifySettled(outcome) ==
  IF outcome.kind = "VerifyResult"
    THEN Respond(200, [success |-> TRUE, result |-> outcome.result])
    ELSE Respond(500, [success |-> FALSE, error |-> ErrorMessage(outcome)])

\* The error handler, which the JSON body parser's failure reaches.
ErrorHandler(message) ==
  Respond(500, [error |-> << "Internal server error" >>, message |-> << message >>])

\* The 404 handler.
NotFound == Respond(404, [error |-> << "Endpoint not found" >>])

\* The routes this model serves.
IsRoute(req, method, path) == req.method = method /\ req.path = path

\* A request body the JSON parser rejects.
Unparsable == [kind |-> "unparsable"]

Parsed(json) == [kind |-> "json", json |-> json]

\* The strings a request carries: empty, blank, plain, with a lone surrogate,
\* and one character above the free-tier limit.
RequestStrings ==
  { [ws |-> 0, body |-> 0, unit |-> 65],
    [ws |-> 2, body |-> 0, unit |-> 65],
    [ws |-> 0, body |-> 5, unit |-> 65],
    [ws |-> 0, body |-> 1, unit |-> 55296],
    [ws |-> 0, body |-> FALLBACK_MAX + Slack, unit |-> 65] }

\* The values of the text and content fields of a request.
FieldValues ==
  {Undefined, Null, Num(0), Num(42), Obj} \cup {Str(c) : c \in RequestStrings}

\* The config field of a request.
RequestConfigs ==
  { None, Some([tier |-> "free", privacy |-> [allowNetworkRequests |-> TRUE]]) }

\* A JSON object with the fields that are not undefined.
Body(text, content, config) ==
  LET t == IF text = Undefined THEN EmptyObj ELSE [k \in {"text"} |-> text]
      c == IF content = Undefined THEN EmptyObj ELSE [k \in {"content"} |-> content]
      g == IF config = None THEN EmptyObj ELSE [k \in {"config"} |-> config[1]]
  IN  Spread(Spread(t, c), g)

\* The requests the server receives.
Requests ==
  {[method |-> "POST", path |-> "/verify", body |-> Parsed(Body(t, c, g))] :
     t \in FieldValues, c \in FieldValues, g \in RequestConfigs}
  \cup {[method |-> "POST", path |-> p, body |-> Unparsable] : p \in {"/verify", "/nope"}}
  \cup {[method |-> m, path |-> p, body |-> Parsed(EmptyObj)] :
          m \in {"GET", "OPTIONS"}, p \in {"/health", "/verify", "/nope"}}

\* A request arrives and is handled up to the handler's first await: the JSON
\* body is parsed, the CORS middleware answers OPTIONS, the route is chosen,
\* and POST /verify answers 400 or calls verify().
Receive ==
  /\ http.pc = "listening"
  /\ \E req \in Requests :
       LET route == PostVerify(IF req.body.kind = "json" THEN req.body.json ELSE EmptyObj)
           got   == [http EXCEPT !.req = Some(req)]
           done(res) == [got EXCEPT !.pc = "responded", !.res = Some(res)]
       IN  IF req.body.kind = "unparsable"
             THEN http' = done(ErrorHandler("Unexpected token")) /\ UNCHANGED calls
           ELSE IF req.method = "OPTIONS"
             THEN http' = done(Respond(200, EmptyObj)) /\ UNCHANGED calls
           ELSE IF IsRoute(req, "GET", "/health")
             THEN http' = done(Respond(200, [ok |-> TRUE, service |-> "llmverify"]))
                  /\ UNCHANGED calls
           ELSE IF IsRoute(req, "POST", "/verify")
             THEN IF route.invoke = None
                    THEN http' = done(route.res[1]) /\ UNCHANGED calls
                    ELSE /\ http' = [got EXCEPT !.pc = "awaitVerify",
                                                !.verifyCalls = @ + 1]
                         /\ calls' = [calls EXCEPT
                                       ![1] = StartOutcome(fs, env, route.invoke[1])]
           ELSE http' = done(NotFound) /\ UNCHANGED calls
  /\ UNCHANGED << fs, env, plugins, loadOptions, loaded, monitor, pureVars, auditVars, facilities >>

\* verify() has settled: the handler of POST /verify sends its response.
Settle ==
  /\ http.pc = "awaitVerify"
  /\ calls[1].pc \in {"returned", "threw"}
  /\ http' = [http EXCEPT !.pc = "responded",
                          !.res = Some(VerifySettled(calls[1].outcome))]
  /\ UNCHANGED << fs, env, plugins, calls, loadOptions, loaded, monitor, pureVars,
                  auditVars, facilities >>

\* The working directories the server is run in.
ServerFileSystems ==
  { EmptyObj,
    "llmverify.config.json" :> File([privacy |-> [allowNetworkRequests |-> TRUE]]) }

InitServer ==
  /\ fs \in ServerFileSystems
  /\ env = Env("", << >>, "")
  /\ plugins \in 0..1
  /\ calls = [c \in Calls |-> IdleCall]
  /\ loadOptions = None
  /\ loaded = None
  /\ OthersIdle

NextServer ==
  \/ Receive
  \/ Settle
  \/ \E e \in Engines : EngineResolve(1, e)
  \/ \E e \in Engines : EngineReject(1, e)
  \/ ExecutePlugins(1)
  \/ Finish(1)

SpecServer == InitServer /\ [][NextServer]_vars

\* ------------------------------------------------------------------------
\* The claims about the HTTP server
\* ------------------------------------------------------------------------

\* The request in hand is a POST /verify whose body parsed.
PostVerifyInHand ==
  /\ http.req # None
  /\ IsRoute(http.req[1], "POST", "/verify")
  /\ http.req[1].body.kind = "json"

\* The value the handler chooses from text and content.
ChosenValue ==
  Or(Field(http.req[1].body.json, "text"), Field(http.req[1].body.json, "content"))

\* The body has neither a text nor a content value, or the chosen value is not
\* a string.
NoUsableText == ~Truthy(ChosenValue) \/ ChosenValue.type # "string"

\* C11: a POST /verify whose body has neither a text nor a content value, or
\* whose chosen value is not a string, is answered with status 400 and
\* verify() is never invoked for it.
C11_MissingOrNonStringIs400 ==
  (PostVerifyInHand /\ NoUsableText) =>
    /\ http.pc = "responded"
    /\ http.res[1].status = 400
    /\ http.verifyCalls = 0
    /\ calls[1].pc = "idle"

\* C11 happens: a body whose text is a number and whose content is a string
\* has been answered.
C11_Witness ==
  /\ PostVerifyInHand
  /\ Field(http.req[1].body.json, "text") = Num(42)
  /\ Field(http.req[1].body.json, "content").type = "string"
  /\ Truthy(Field(http.req[1].body.json, "content"))
  /\ http.res # None

\* The request failed because of the caller's input: its body does not parse,
\* it carries no usable text, or verify() rejected it at the privacy gate or
\* in input validation.
CallerInputFailure ==
  /\ http.req # None
  /\ \/ http.req[1].body.kind = "unparsable"
     \/ PostVerifyInHand /\ NoUsableText
     \/ /\ http.verifyCalls > 0
        /\ calls[1].pc = "threw"
        /\ calls[1].outcome.kind = "ValidationError"
     \/ /\ http.verifyCalls > 0
        /\ calls[1].pc = "threw"
        /\ calls[1].outcome.kind = "PrivacyViolationError"
        /\ SuppliedViolatesPrivacy(calls[1])

\* The request names a route the server does not serve.
UnknownRoute ==
  /\ http.req[1].method # "OPTIONS"
  /\ ~IsRoute(http.req[1], "GET", "/health")
  /\ ~IsRoute(http.req[1], "POST", "/verify")

\* C12: a request that fails because of the caller's input is answered with
\* status 400; 404 is answered only to unknown routes and 500 only to failures
\* that are not caller input problems; every error body carries a message.
C12_CallerInputIs400 ==
  http.res # None =>
    /\ CallerInputFailure => http.res[1].status = 400
    /\ http.res[1].status = 404 => UnknownRoute
    /\ http.res[1].status = 500 => ~CallerInputFailure
    /\ http.res[1].status >= 400 =>
         Has(http.res[1].body, "error") /\ http.res[1].body.error # << >>

\* ------------------------------------------------------------------------
\* audit: the public AuditLogger
\* ------------------------------------------------------------------------

\* A behaviour makes at most MaxLogs log() calls.
MaxLogs == 3

\* The calendar advances at most MaxDays days past the logger's creation.
MaxDays == 2

\* A file path: its name up to the extension, a date suffix inserted before
\* the extension if any, and the extension path.extname gives ("" if none).
Path(base, ext) == [base |-> base, date |-> None, ext |-> ext]

\* The empty string as a path.
NoPath == Path("", "")

AUDIT_DEFAULT_CONFIG ==
  [ enabled            |-> FALSE,
    outputPath         |-> Path("./llmverify-audit", ".jsonl"),
    maxEntries         |-> 10000,
    rotateDaily        |-> TRUE,
    includeContentHash |-> TRUE ]

\* maxEntries || 10000
AUDIT_FALLBACK_MAX == 10000

\* entries.slice(-1000)
AUDIT_TRIM == 1000

\* getRecent(count = 100)
RECENT_DEFAULT == 100

\* list.slice(-n) for n > 0
LastN(list, n) ==
  IF Len(list) <= n THEN list ELSE SubSeq(list, Len(list) - n + 1, Len(list))

\* new AuditLogger(config) on date day
AuditLogger(config, day) ==
  [ config      |-> Spread(AUDIT_DEFAULT_CONFIG, config),
    entries     |-> << >>,
    currentDate |-> day ]

\* `${base}-${today}${ext}` with ext = path.extname(filePath) and
\* base = filePath.slice(0, -ext.length): without an extension the slice is
\* slice(0, -0), the empty string.
RotatedPath(filePath, day) ==
  [ base |-> IF filePath.ext = "" THEN "" ELSE filePath.base,
    date |-> Some(day),
    ext  |-> filePath.ext ]

\* fs.appendFileSync(filePath, line)
AppendLine(files, filePath, line) ==
  IF filePath \in DOMAIN files
    THEN [files EXCEPT ![filePath] = Append(@, line)]
    ELSE files @@ (filePath :> << line >>)

\* writeToFile as faulty: a failure of appendFileSync is thrown to log().
writeToFileUnguarded(lg, entry, day, files, fails) ==
  LET rotate   == lg.config.rotateDaily /\ day # lg.currentDate
      filePath == IF rotate THEN RotatedPath(lg.config.outputPath, day)
                  ELSE lg.config.outputPath
  IN  IF lg.config.outputPath = NoPath
        THEN [logger |-> lg, disk |-> files, threw |-> FALSE]
        ELSE [logger |-> IF rotate THEN [lg EXCEPT !.currentDate = day] ELSE lg,
              disk   |-> IF fails THEN files ELSE AppendLine(files, filePath, entry.id[1]),
              threw  |-> fails]

\* writeToFile(entry) on date day; fails tells whether appendFileSync throws.
\* The logger and the files after it; nothing is thrown to log().
writeToFile(lg, entry, day, files, fails) ==
  LET rotate   == lg.config.rotateDaily /\ day # lg.currentDate
      filePath == IF rotate THEN RotatedPath(lg.config.outputPath, day)
                  ELSE lg.config.outputPath
  IN  IF lg.config.outputPath = NoPath
        THEN [logger |-> lg, disk |-> files, threw |-> FALSE]
        ELSE [logger |-> IF rotate THEN [lg EXCEPT !.currentDate = day] ELSE lg,
              disk   |-> IF fails THEN files ELSE AppendLine(files, filePath, entry.id[1]),
              threw  |-> FALSE]

\* this.config.maxEntries || 10000
MaxEntries(lg) ==
  IF TruthyNum(lg.config.maxEntries) THEN lg.config.maxEntries ELSE AUDIT_FALLBACK_MAX

\* log(entry) as faulty: a disabled logger still keeps the entry in memory.
logAlways(lg, entry, id, day, files, fails) ==
  LET fullEntry == [entry |-> entry, id |-> Some(id), timestamp |-> Some(day)]
      pushed    == [lg EXCEPT !.entries = Append(@, fullEntry)]
      written   == IF lg.config.outputPath # NoPath
                     THEN writeToFile(pushed, fullEntry, day, files, fails)
                     ELSE [logger |-> pushed, disk |-> files, threw |-> FALSE]
      trimmed   == IF Len(written.logger.entries) > MaxEntries(lg)
                     THEN [written.logger EXCEPT !.entries = LastN(@, AUDIT_TRIM)]
                     ELSE written.logger
  IN  IF ~lg.config.enabled
        THEN [logger |-> pushed, disk |-> files, threw |-> FALSE,
              returned |-> [entry |-> entry, id |-> None, timestamp |-> None]]
        ELSE IF written.threw
          THEN [logger |-> written.logger, disk |-> written.disk, threw |-> TRUE,
                returned |-> [entry |-> entry, id |-> None, timestamp |-> None]]
        ELSE [logger |-> trimmed, disk |-> written.disk, threw |-> FALSE,
              returned |-> fullEntry]

\* log(entry) on date day, generateId() giving id: the logger and the files
\* after it, and the entry returned.
log(lg, entry, id, day, files, fails) ==
  LET fullEntry == [entry |-> entry, id |-> Some(id), timestamp |-> Some(day)]
      pushed    == [lg EXCEPT !.entries = Append(@, fullEntry)]
      written   == IF lg.config.outputPath # NoPath
                     THEN writeToFile(pushed, fullEntry, day, files, fails)
                     ELSE [logger |-> pushed, disk |-> files, threw |-> FALSE]
      trimmed   == IF Len(written.logger.entries) > MaxEntries(lg)
                     THEN [written.logger EXCEPT !.entries = LastN(@, AUDIT_TRIM)]
                     ELSE written.logger
  IN  IF ~lg.config.enabled
        THEN [logger |-> lg, disk |-> files, threw |-> FALSE,
              returned |-> [entry |-> entry, id |-> None, timestamp |-> None]]
        ELSE IF written.threw
          \* an exception of writeToFile would leave log() before it returns
          THEN [logger |-> written.logger, disk |-> written.disk, threw |-> TRUE,
                returned |-> [entry |-> entry, id |-> None, timestamp |-> None]]
        ELSE [logger |-> trimmed, disk |-> written.disk, threw |-> FALSE,
              returned |-> fullEntry]

\* list.slice(start): a negative start counts from the end, and -0 is 0.
slice(list, start) ==
  LET from == IF start < 0
                THEN (IF Len(list) + start < 0 THEN 0 ELSE Len(list) + start)
                ELSE (IF start > Len(list) THEN Len(list) ELSE start)
  IN  SubSeq(list, from + 1, Len(list))

\* getRecent(count): this.entries.slice(-count)
getRecent(lg, count) == slice(lg.entries, 0 - count)

\* getSummary().totalEntries
totalEntries(lg) == Len(lg.entries)

\* The configs an AuditLogger is constructed with.
AuditConfigs ==
  { Spread(Spread(e, o), Spread(m, r)) :
      e \in {[enabled |-> TRUE], [enabled |-> FALSE]},
      o \in {EmptyObj, [outputPath |-> NoPath], [outputPath |-> Path("audit", "")]},
      m \in {EmptyObj, [maxEntries |-> 0], [maxEntries |-> 2]},
      r \in {EmptyObj, [rotateDaily |-> FALSE]} }

\* An enabled logger without a file that holds at most AUDIT_TRIM entries.
MemoryConfig == [enabled |-> TRUE, outputPath |-> NoPath, maxEntries |-> AUDIT_TRIM]

\* The logger after n log() calls on its day of creation.
Filled(lg, n) ==
  [lg EXCEPT !.entries = [i \in 1..n |->
                            [entry |-> "verify", id |-> Some(i), timestamp |-> Some(0)]]]

\* A log() call.
Log ==
  /\ logger # None
  /\ ret.logs < MaxLogs
  /\ \E fails \in BOOLEAN :
       LET r == log(logger[1], "verify", ret.nextId, today, disk, fails)
       IN  /\ logger' = Some(r.logger)
           /\ disk' = r.disk
           /\ ret' = [logs |-> ret.logs + 1, nextId |-> ret.nextId + 1,
                      last |-> IF r.threw THEN None ELSE Some(r.returned),
                      failed |-> logger[1].config.enabled
                                   /\ logger[1].config.outputPath # NoPath /\ fails,
                      threw |-> r.threw, recent |-> ret.recent]
           /\ kept' = IF logger[1].config.enabled THEN Append(kept, r.returned) ELSE kept
  /\ UNCHANGED << fs, env, plugins, calls, loadOptions, loaded, facilities, http, monitor, pureVars, today >>

\* setEnabled(enabled)
SetEnabled ==
  /\ logger # None
  /\ \E enabled \in BOOLEAN :
       logger' = Some([logger[1] EXCEPT !.config.enabled = enabled])
  /\ UNCHANGED << fs, env, plugins, calls, loadOptions, loaded, facilities, http, monitor, pureVars, today, disk, ret, kept >>

\* clear()
Clear ==
  /\ logger # None
  /\ logger' = Some([logger[1] EXCEPT !.entries = << >>])
  /\ kept' = << >>
  /\ UNCHANGED << fs, env, plugins, calls, loadOptions, loaded, facilities, http, monitor, pureVars, today, disk, ret >>

\* The counts getRecent is called with; None is the call without argument.
RecentCounts == {None} \cup {Some(n) : n \in 0..(MaxLogs - 1)}

\* A caller asks once for the recent entries: ret.recent keeps the count and
\* the entries returned.
GetRecent ==
  /\ logger # None
  /\ ret.recent = None
  /\ \E asked \in RecentCounts :
       LET count == IF asked = None THEN RECENT_DEFAULT ELSE asked[1]
       IN  ret' = [ret EXCEPT !.recent =
                     Some([count |-> count,
                           entries |-> getRecent(logger[1], count)])]
  /\ UNCHANGED << fs, env, plugins, calls, loadOptions, loaded, facilities, http, monitor, pureVars, today, logger, disk, kept >>

\* Midnight passes.
Tick ==
  /\ today < MaxDays
  /\ today' = today + 1
  /\ UNCHANGED << fs, env, plugins, calls, loadOptions, loaded, facilities, http, monitor, pureVars, logger, disk, ret, kept >>

\* A logger has been constructed on day 0; the one without a file may have
\* logged one entry short of its maximum since.
InitAudit ==
  /\ fs = EmptyObj
  /\ env = Env("", << >>, "")
  /\ plugins = 0
  /\ calls = [c \in Calls |-> IdleCall]
  /\ loadOptions = None
  /\ loaded = None
  /\ http = HttpIdle
  /\ monitor = MonitorIdle
  /\ PureIdle
  /\ FacilitiesIdle
  /\ today = 0
  /\ disk = << >>
  /\ \/ \E config \in AuditConfigs :
          /\ logger = Some(AuditLogger(config, 0))
          /\ ret = [logs |-> 0, nextId |-> 1, last |-> None,
                 failed |-> FALSE, threw |-> FALSE,
                 recent |-> None]
          /\ kept = << >>
     \/ /\ logger = Some(Filled(AuditLogger(MemoryConfig, 0), AUDIT_TRIM - 1))
        /\ ret = [logs |-> 0, nextId |-> AUDIT_TRIM, last |-> None,
                 failed |-> FALSE, threw |-> FALSE,
                 recent |-> None]
        /\ kept = logger[1].entries

NextAudit == Log \/ SetEnabled \/ Clear \/ Tick

SpecAudit == InitAudit /\ [][NextAudit]_vars

\* Entries are logged and the recent ones are asked for.
NextRecent == Log \/ GetRecent

SpecRecent == InitAudit /\ [][NextRecent]_vars

\* ------------------------------------------------------------------------
\* The claims about the AuditLogger
\* ------------------------------------------------------------------------

\* C13: the number of entries an AuditLogger holds in memory never exceeds
\* its maxEntries (10,000 when none is configured).
C13_NeverMoreThanMaxEntries ==
  logger # None => Len(logger[1].entries) <= MaxEntries(logger[1])

\* The entries held are the most recent of the entries logged while enabled
\* since the last clear().
HoldsMostRecent ==
  /\ Len(logger[1].entries) <= Len(kept)
  /\ logger[1].entries = LastN(kept, Len(logger[1].entries))

\* A log() call on a disabled logger returns the entry with empty id and
\* timestamp and changes nothing; a log() call on an enabled logger returns a
\* populated id.
LogReturnsByEnabled ==
  ret'.logs = ret.logs + 1 =>
    IF logger[1].config.enabled
      THEN ret'.last[1].id # None
      ELSE /\ ret'.last[1].id = None
           /\ ret'.last[1].timestamp = None
           /\ logger' = logger
           /\ disk' = disk

\* C14 as stated: getRecent() and getSummary().totalEntries reflect exactly the
\* entries logged while the logger was enabled since the last clear(), and
\* log() returns a populated id exactly when the logger is enabled, changing
\* nothing when it is disabled.
C14_ReflectsEnabledLogs ==
  /\ [](logger # None =>
          /\ getRecent(logger[1], RECENT_DEFAULT) = LastN(kept, RECENT_DEFAULT)
          /\ totalEntries(logger[1]) = Len(kept))
  /\ [][LogReturnsByEnabled]_vars

\* C14: as stated while no more than maxEntries entries have been logged while
\* enabled since the last clear(); beyond that, what is held is the most recent
\* of them.
C14_ReflectsEnabledLogsUntilTrim ==
  /\ [](logger # None =>
          /\ HoldsMostRecent
          /\ getRecent(logger[1], RECENT_DEFAULT)
               = LastN(logger[1].entries, RECENT_DEFAULT)
          /\ Len(kept) <= MaxEntries(logger[1]) =>
               /\ getRecent(logger[1], RECENT_DEFAULT) = LastN(kept, RECENT_DEFAULT)
               /\ totalEntries(logger[1]) = Len(kept))
  /\ [][LogReturnsByEnabled]_vars

\* C14 happens: a disabled logger that holds an entry logged while enabled has
\* just returned a placeholder.
C14_Witness ==
  /\ logger # None
  /\ ~logger[1].config.enabled
  /\ ret.last # None
  /\ ret.last[1].id = None
  /\ Len(kept) = 1
  /\ totalEntries(logger[1]) = 1

\* The file the claim names for an entry logged on date day.
SuffixedPath(filePath, day) ==
  [base |-> filePath.base, date |-> Some(day), ext |-> filePath.ext]

\* C16: with an output path and rotateDaily set, an entry logged on a date
\* after the date the logger was created on is appended to the file named by
\* the output path with the date inserted before the extension, and to no
\* other file.
C16_LaterDatesGoToSuffixedFile ==
  ( /\ logger # None
    /\ logger[1].config.rotateDaily
    /\ logger[1].config.outputPath # NoPath
    /\ ret.last # None
    /\ ret.last[1].id # None
    /\ ret.last[1].timestamp[1] > 0 ) =>
    \A filePath \in DOMAIN disk :
      ret.last[1].id[1] \in Range(disk[filePath]) =>
        filePath = SuffixedPath(logger[1].config.outputPath, ret.last[1].timestamp[1])

\* ------------------------------------------------------------------------
\* verify() calls outstanding together, and audit files that cannot be written
\* ------------------------------------------------------------------------

\* The options of the calls made together: one engine run, two engines run,
\* and empty content.
ConcurrentOptions ==
  { [content |-> [ws |-> 0, body |-> 5, unit |-> 65], config |-> None,
     context |-> Some([skipEngines |-> {"hallucination", "consistency"}])],
    [content |-> [ws |-> 1, body |-> 4, unit |-> 65], config |-> None,
     context |-> Some([skipEngines |-> {"hallucination"}])],
    [content |-> [ws |-> 0, body |-> 0, unit |-> 65], config |-> None,
     context |-> None] }

\* A call enters verify() while others may be outstanding.
VerifyConcurrently(c) ==
  /\ calls[c].pc = "idle"
  /\ \E options \in ConcurrentOptions :
       calls' = [calls EXCEPT ![c] = StartOutcome(fs, env, options)]
  /\ UNCHANGED << fs, env, plugins, loadOptions, loaded, others, facilities >>

InitConcurrent ==
  /\ fs = EmptyObj
  /\ env = Env("", << >>, "")
  /\ plugins \in 0..1
  /\ calls = [c \in Calls |-> IdleCall]
  /\ loadOptions = None
  /\ loaded = None
  /\ http = HttpIdle
  /\ monitor = MonitorIdle
  /\ PureIdle
  /\ AuditIdle
  /\ auditTrail \in {[records |-> << >>, writable |-> w] : w \in BOOLEAN}
  /\ baseline = [samples |-> 0, checks |-> 0]

NextConcurrent ==
  \E c \in Calls :
    \/ VerifyConcurrently(c)
    \/ \E e \in Engines : EngineResolve(c, e)
    \/ \E e \in Engines : EngineReject(c, e)
    \/ ExecutePlugins(c)
    \/ Finish(c)

SpecConcurrent == InitConcurrent /\ [][NextConcurrent]_vars

\* A program that uses an enabled AuditLogger with a file and calls verify(),
\* where either audit file may not be writable.
InitAuditFailure ==
  /\ fs = EmptyObj
  /\ env = Env("", << >>, "")
  /\ plugins \in 0..1
  /\ calls = [c \in Calls |-> IdleCall]
  /\ loadOptions = None
  /\ loaded = None
  /\ http = HttpIdle
  /\ monitor = MonitorIdle
  /\ PureIdle
  /\ today = 0
  /\ disk = << >>
  /\ ret = [logs |-> 0, nextId |-> 1, last |-> None,
            failed |-> FALSE, threw |-> FALSE,
                 recent |-> None]
  /\ kept = << >>
  /\ \E r \in {EmptyObj, [rotateDaily |-> FALSE]} :
       logger = Some(AuditLogger(Spread([enabled |-> TRUE], r), 0))
  /\ auditTrail \in {[records |-> << >>, writable |-> w] : w \in BOOLEAN}
  /\ baseline = [samples |-> 0, checks |-> 0]

NextAuditFailure ==
  \/ Log
  \/ Tick
  \/ VerifyConcurrently(1)
  \/ \E e \in Engines : EngineResolve(1, e)
  \/ \E e \in Engines : EngineReject(1, e)
  \/ ExecutePlugins(1)
  \/ Finish(1)

SpecAuditFailure == InitAuditFailure /\ [][NextAuditFailure]_vars

\* ------------------------------------------------------------------------
\* The claims about audit failures and about calls outstanding together
\* ------------------------------------------------------------------------

\* The positions of op in the operations of a call.
Positions(call, op) == {i \in 1..Len(call.ops) : call.ops[i] = op}

\* The records the internal audit logger holds for call c.
RecordsOf(c) ==
  {i \in 1..Len(auditTrail.records) : auditTrail.records[i].call = c}

\* C15: a failure to append an audit entry to its file never reaches the
\* caller: log() returns the populated entry and keeps it in memory, and a
\* verify() call that has computed its risk and records its audit entry
\* returns its VerifyResult.
C15_AuditFailureSwallowed ==
  /\ ~ret.threw
  /\ ret.failed =>
       /\ ret.last # None
       /\ ret.last[1].id # None
       /\ Member(ret.last[1], logger[1].entries)
  /\ \A c \in Calls :
       Positions(calls[c], "audit.logVerification") # {} =>
         /\ calls[c].pc = "returned"
         /\ calls[c].outcome.kind = "VerifyResult"
         /\ RecordsOf(c) # {}

\* C15 happens: the last log() call could not write its file, and a verify()
\* call whose audit record could not be written has returned.
C15_Witness ==
  /\ ret.failed
  /\ \E i \in 1..Len(auditTrail.records) :
       /\ ~auditTrail.records[i].persisted
       /\ calls[auditTrail.records[i].call].pc = "returned"

\* The calls that have returned a VerifyResult.
ReturnedCalls == {c \in Calls : calls[c].pc = "returned"}

\* C17: every verify() call that has returned has made exactly one audit
\* record, then folded exactly one baseline observation, then made one drift
\* check; the calls that have not returned have made none, so that N returned
\* calls leave N audit records, N observations and N drift checks.
C17_OneRecordPerReturnedCall ==
  /\ \A c \in Calls :
       IF c \in ReturnedCalls
         THEN /\ Cardinality(RecordsOf(c)) = 1
              /\ \E i, j, k \in 1..Len(calls[c].ops) :
                   /\ i < j /\ j < k
                   /\ Positions(calls[c], "audit.logVerification") = {i}
                   /\ Positions(calls[c], "baseline.updateBaseline") = {j}
                   /\ Positions(calls[c], "baseline.checkDrift") = {k}
         ELSE /\ RecordsOf(c) = {}
              /\ Positions(calls[c], "audit.logVerification") = {}
              /\ Positions(calls[c], "baseline.updateBaseline") = {}
  /\ Len(auditTrail.records) = Cardinality(ReturnedCalls)
  /\ baseline.samples = Cardinality(ReturnedCalls)
  /\ baseline.checks = Cardinality(ReturnedCalls)

\* C17 happens: two calls have returned, the one that entered verify() with
\* the longer engine list having recorded first.
C17_Witness ==
  /\ ReturnedCalls = Calls
  /\ auditTrail.records[1].call = 2
  /\ Len(calls[2].enginesUsed) > Len(calls[1].enginesUsed)
  /\ baseline.samples = 2

\* ------------------------------------------------------------------------
\* monitor.js: the clipboard monitor
\* ------------------------------------------------------------------------

\* The monitor polls at most MaxPolls times.
MaxPolls == 3

\* clipboard.length > 50
MONITOR_LENGTH == 50

\* What the clipboard holds: a text of body characters between pad blank
\* characters at its ends.
ClipboardTexts ==
  {[text |-> t, body |-> n, pad |-> p] :
     t \in {"answer", "other"},
     n \in (MONITOR_LENGTH - Slack)..(MONITOR_LENGTH + Slack),
     p \in {0, 1}}
  \cup {[text |-> "", body |-> 0, pad |-> p] : p \in {0, 1}}

\* getClipboard(): the trimmed output of Get-Clipboard, '' when it fails.
getClipboard(clip, fails) ==
  IF fails THEN [text |-> "", body |-> 0] ELSE [text |-> clip.text, body |-> clip.body]

\* The test of the poll:
\* clipboard && clipboard !== lastClipboard && clipboard.length > 50
ShouldSubmit(clipboard, last) ==
  clipboard.body > 0 /\ clipboard # last /\ clipboard.body > MONITOR_LENGTH

\* The user copies a text.
Copy ==
  /\ \E clip \in ClipboardTexts : monitor' = [monitor EXCEPT !.clipboard = clip]
  /\ UNCHANGED << fs, env, plugins, calls, loadOptions, loaded, http, pureVars,
                  auditVars, facilities >>

\* The interval callback: the clipboard is read and, if the test passes, the
\* text is remembered and submitted to /verify.
Poll ==
  /\ monitor.polls < MaxPolls
  /\ \E fails \in BOOLEAN :
       LET clipboard == getClipboard(monitor.clipboard, fails)
       IN  monitor' =
             IF ShouldSubmit(clipboard, monitor.lastClipboard)
               THEN [monitor EXCEPT !.polls = @ + 1,
                                    !.read = clipboard,
                                    !.lastClipboard = clipboard,
                                    !.submitted = Append(@, clipboard)]
               ELSE [monitor EXCEPT !.polls = @ + 1, !.read = clipboard]
  /\ UNCHANGED << fs, env, plugins, calls, loadOptions, loaded, http, pureVars,
                  auditVars, facilities >>

InitMonitor ==
  /\ fs = EmptyObj
  /\ env = Env("", << >>, "")
  /\ plugins = 0
  /\ calls = [c \in Calls |-> IdleCall]
  /\ loadOptions = None
  /\ loaded = None
  /\ OthersIdle

NextMonitor == Copy \/ Poll

SpecMonitor == InitMonitor /\ [][NextMonitor]_vars

\* A poll submits the text it read.
Submits == Len(monitor'.submitted) = Len(monitor.submitted) + 1

\* C18: a poll submits the text it read from the clipboard exactly when the
\* text is not empty, differs from the text remembered from the last
\* submission and is at least 50 characters long.
C18_SubmitsFromFiftyCharacters ==
  [][monitor'.polls = monitor.polls + 1 =>
       IF /\ monitor'.read.body > 0
          /\ monitor'.read # monitor.lastClipboard
          /\ monitor'.read.body >= MONITOR_LENGTH
         THEN Submits /\ monitor'.submitted = Append(monitor.submitted, monitor'.read)
         ELSE monitor'.submitted = monitor.submitted]_vars

-----------------------------------------------------------------------------
\* Contradiction signals between claims (risk-analyzer.ts).  A text is the
\* sequence of the pieces its whitespace separates.

\* The longest list of claims handed to checkContradictions.
MaxClaims == 3

\* String.prototype.toLowerCase on one piece of a text.
toLowerCase(w) ==
  CASE w = "The" -> "the"
    [] w = "Service" -> "service"
    [] w = "Is" -> "is"
    [] OTHER -> w

\* toLowerCase on a text.
LowerText(text) == [k \in 1..Len(text) |-> toLowerCase(text[k])]

\* The maximal runs of word characters of one piece: an apostrophe ends a
\* run, so b finds a boundary inside "can't" and none inside "cannot".
WordRuns(w) ==
  CASE w = "can't" -> {"can", "t"}
    [] w = "isn't" -> {"isn", "t"}
    [] w = "won't" -> {"won", "t"}
    [] w = "doesn't" -> {"doesn", "t"}
    [] w = "hasn't" -> {"hasn", "t"}
    [] OTHER -> {w}

\* /\bword\b/.test(text)
TestWord(word, text) == \E k \in 1..Len(text) : word \in WordRuns(text[k])

\* /\bphrase\b/.test(text) for a phrase of pieces separated by one space.
TestPhrase(phrase, text) ==
  \E k \in 0..(Len(text) - Len(phrase)) :
    \A m \in 1..Len(phrase) : text[k + m] = phrase[m]

\* An alternation of phrases tested against a text.
TestAny(phrases, text) == \E ph \in phrases : TestPhrase(ph, text)

\* The negationPatterns of detectContradiction, in the order of the source.
negationPatterns ==
  << [positive |-> "is",     negative |-> {<< "is", "not" >>, << "isn't" >>}],
     [positive |-> "will",   negative |-> {<< "will", "not" >>, << "won't" >>}],
     [positive |-> "can",    negative |-> {<< "cannot" >>, << "can't" >>}],
     [positive |-> "does",   negative |-> {<< "does", "not" >>, << "doesn't" >>}],
     [positive |-> "has",    negative |-> {<< "has", "not" >>, << "hasn't" >>}],
     [positive |-> "true",   negative |-> {<< "false" >>}],
     [positive |-> "yes",    negative |-> {<< "no" >>}],
     [positive |-> "always", negative |-> {<< "never" >>}],
     [positive |-> "all",    negative |-> {<< "none" >>}] >>

\* The length a word must exceed to count as a subject word.
SUBJECT_WORD_LENGTH == 4

\* The number of shared subject words that makes two texts share a subject.
SUBJECT_OVERLAP == 2

\* new Set(text.split(/\s+/).filter(w => w.length > 4))
SubjectWords(text) ==
  {text[k] : k \in {m \in 1..Len(text) : Len(text[m]) > SUBJECT_WORD_LENGTH}}

\* One text matches the positive side and the other the negative side.
Opposed(pattern, text1, text2) ==
  LET match1Pos == TestWord(pattern.positive, text1)
      match1Neg == TestAny(pattern.negative, text1)
      match2Pos == TestWord(pattern.positive, text2)
      match2Neg == TestAny(pattern.negative, text2)
  IN  (match1Pos /\ match2Neg) \/ (match1Neg /\ match2Pos)

\* detectContradiction(claim1, claim2)
detectContradiction(claim1, claim2) ==
  LET text1 == LowerText(claim1.text)
      text2 == LowerText(claim2.text)
      overlap == SubjectWords(text1) \cap SubjectWords(text2)
  IN  \E k \in 1..Len(negationPatterns) :
        /\ Opposed(negationPatterns[k], text1, text2)
        /\ Cardinality(overlap) >= SUBJECT_OVERLAP

\* The contradictionPairs checkContradictions collects.
contradictionPairs(claims) ==
  {pair \in (1..Len(claims)) \X (1..Len(claims)) :
     /\ pair[1] < pair[2]
     /\ detectContradiction(claims[pair[1]], claims[pair[2]])}

\* { ...claim, riskIndicators: { ...claim.riskIndicators, contradictionSignal: true } }
Marked(claim) ==
  Spread(claim, [riskIndicators |->
                   Spread(claim.riskIndicators, [contradictionSignal |-> TRUE])])

\* checkContradictions marking only the first claim of each pair.
checkContradictionsFirstOnly(claims) ==
  LET pairs == contradictionPairs(claims)
      isInvolved(index) == \E pair \in pairs : pair[1] = index
  IN  [claims  |-> claims,
       updated |-> [index \in 1..Len(claims) |->
                      IF isInvolved(index) THEN Marked(claims[index])
                                           ELSE claims[index]]]

\* checkContradictions(claims): the array it was given as the call leaves it,
\* and the array it returns.
checkContradictions(claims) ==
  LET pairs == contradictionPairs(claims)
      isInvolved(index) == \E pair \in pairs : pair[1] = index \/ pair[2] = index
  IN  [claims  |-> claims,
       updated |-> [index \in 1..Len(claims) |->
                      IF isInvolved(index) THEN Marked(claims[index])
                                           ELSE claims[index]]]

\* A Claim.
Claim(text, type, verifiable, specificity, citation, vague, signal) ==
  [text |-> text, type |-> type, verifiable |-> verifiable,
   riskIndicators |-> [lackOfSpecificity   |-> specificity,
                       missingCitation     |-> citation,
                       vagueLanguage       |-> vague,
                       contradictionSignal |-> signal]]

\* The claims the lists are made of.
ClaimPool ==
  { Claim(<< "The", "Service", "is", "available", "worldwide" >>,
          "factual", TRUE, 1, TRUE, FALSE, FALSE),
    Claim(<< "the", "service", "is", "not", "available", "worldwide" >>,
          "factual", TRUE, 0, FALSE, FALSE, FALSE),
    Claim(<< "the", "price", "is", "fair" >>,
          "opinion", FALSE, 2, TRUE, TRUE, FALSE),
    Claim(<< "the", "service", "can't", "be", "available" >>,
          "factual", TRUE, 1, FALSE, FALSE, FALSE),
    Claim(<< "every", "service", "is", "always", "available" >>,
          "factual", TRUE, 3, TRUE, TRUE, TRUE) }

\* The lists of claims of at most n claims.
ClaimLists(n) == UNION {[1..k -> ClaimPool] : k \in 0..n}

\* A caller calls checkContradictions on the list it holds.
CheckContradictions ==
  /\ contra.updated = None
  /\ LET done == checkContradictions(contra.claims)
     IN  contra' = [contra EXCEPT !.claims = done.claims,
                                  !.updated = Some(done.updated)]
  /\ UNCHANGED << fs, env, plugins, calls, loadOptions, loaded, http, monitor,
                  consist, soloVars, auditVars, facilities >>

InitContradictions ==
  /\ fs = EmptyObj
  /\ env = Env("", << >>, "")
  /\ plugins = 0
  /\ calls = [c \in Calls |-> IdleCall]
  /\ loadOptions = None
  /\ loaded = None
  /\ http = HttpIdle
  /\ monitor = MonitorIdle
  /\ consist = ConsistIdle
  /\ SoloIdle
  /\ AuditIdle
  /\ FacilitiesIdle
  /\ \E given \in ClaimLists(MaxClaims) :
       contra = [given |-> given, claims |-> given, updated |-> None]

NextContradictions == CheckContradictions

SpecContradictions == InitContradictions /\ [][NextContradictions]_vars

\* The claim at index belongs to a contradicting pair of the list.
InPair(list, index) ==
  \E other \in (1..Len(list)) \ {index} :
    detectContradiction(list[index], list[other])

\* Two claims agree on every field but contradictionSignal.
SameButSignal(a, b) ==
  /\ a.text = b.text /\ a.type = b.type /\ a.verifiable = b.verifiable
  /\ a.riskIndicators.lackOfSpecificity = b.riskIndicators.lackOfSpecificity
  /\ a.riskIndicators.missingCitation = b.riskIndicators.missingCitation
  /\ a.riskIndicators.vagueLanguage = b.riskIndicators.vagueLanguage

\* C19: checkContradictions returns a list of the same length and order as
\* its argument in which the members of contradicting pairs have
\* contradictionSignal true and are otherwise as given, every other claim is
\* as given, and the argument itself is left as it was.
C19_MarksExactlyThePairs ==
  contra.updated # None =>
    LET given == contra.given
        updated == contra.updated[1]
    IN  /\ Len(updated) = Len(given)
        /\ contra.claims = given
        /\ \A index \in 1..Len(given) :
             IF InPair(given, index)
               THEN /\ updated[index].riskIndicators.contradictionSignal
                    /\ SameButSignal(updated[index], given[index])
               ELSE updated[index] = given[index]

\* A returned list in which one claim was marked, one was left unmarked and
\* one arrived with the signal already set.
C19_Witness ==
  /\ contra.updated # None
  /\ \E i, j, k \in 1..Len(contra.given) :
       /\ InPair(contra.given, i)
       /\ ~contra.given[i].riskIndicators.contradictionSignal
       /\ contra.updated[1][i].riskIndicators.contradictionSignal
       /\ ~InPair(contra.given, j)
       /\ ~contra.updated[1][j].riskIndicators.contradictionSignal
       /\ contra.given[k].riskIndicators.contradictionSignal

-----------------------------------------------------------------------------
\* The consistency engine (engines/consistency/index.ts).  A section is a
\* text; similarities, scores and confidences are counted in hundredths and
\* the drift score in tenths.

\* The longest list of sections handed to check().
MaxSections == 3

\* The contradictionPatterns of detectContradictions, in the order of the
\* source; "increased?" and "decreased?" stand for two words each.
contradictionPatterns ==
  << [positive |-> {"is"},     negative |-> {<< "is", "not" >>, << "isn't" >>}],
     [positive |-> {"will"},   negative |-> {<< "will", "not" >>, << "won't" >>}],
     [positive |-> {"true"},   negative |-> {<< "false" >>}],
     [positive |-> {"always"}, negative |-> {<< "never" >>}],
     [positive |-> {"all"},    negative |-> {<< "none" >>, << "no" >>}],
     [positive |-> {"increase", "increased"},
      negative |-> {<< "decrease" >>, << "decreased" >>}],
     [positive |-> {"more"},   negative |-> {<< "less" >>, << "fewer" >>}] >>

\* One section matches the positive side and the other the negative side.
SectionsOpposed(pattern, section1, section2) ==
  LET s1HasPos == \E w \in pattern.positive : TestWord(w, section1)
      s1HasNeg == TestAny(pattern.negative, section1)
      s2HasPos == \E w \in pattern.positive : TestWord(w, section2)
      s2HasNeg == TestAny(pattern.negative, section2)
  IN  (s1HasPos /\ s2HasNeg) \/ (s1HasNeg /\ s2HasPos)

\* The pairs i < j of 1..n in the order the two loops visit them.
PairsInOrder(n) ==
  SelectSeq([k \in 1..(n * n) |-> << ((k - 1) \div n) + 1, ((k - 1) % n) + 1 >>],
            LAMBDA pair : pair[1] < pair[2])

\* The confidence of a logical contradiction with no shared word, and what
\* each shared word adds.
LOGICAL_CONFIDENCE == 60
OVERLAP_CONFIDENCE == 5

\* The entries detectContradictions pushes for the pair (i, j): one for the
\* first pattern that opposes the sections, if they share a subject.  The
\* sections here are one sentence of fewer than 100 characters, which
\* extractRelevantClaim returns whole.
LogicalEntries(sections, i, j) ==
  LET section1 == LowerText(sections[i])
      section2 == LowerText(sections[j])
      overlap == SubjectWords(section1) \cap SubjectWords(section2)
  IN  IF /\ \E k \in 1..Len(contradictionPatterns) :
              SectionsOpposed(contradictionPatterns[k], section1, section2)
         /\ Cardinality(overlap) >= SUBJECT_OVERLAP
        THEN << [section1 |-> i - 1, section2 |-> j - 1,
                 claim1 |-> sections[i], claim2 |-> sections[j],
                 type |-> "logical",
                 confidence |-> LOGICAL_CONFIDENCE
                                  + Cardinality(overlap) * OVERLAP_CONFIDENCE] >>
        ELSE << >>

\* The concatenation of a list of lists.
RECURSIVE Flatten(_)
Flatten(lists) ==
  IF lists = << >> THEN << >>
  ELSE Flatten(SubSeq(lists, 1, Len(lists) - 1)) \o lists[Len(lists)]

\* detectContradictions(sections)
detectContradictions(sections) ==
  LET pairs == PairsInOrder(Len(sections))
  IN  Flatten([k \in 1..Len(pairs) |->
                 LogicalEntries(sections, pairs[k][1], pairs[k][2])])

\* The pieces NUMERICAL_PATTERN matches in the sections of the model.
Numerals == {"3", "500", "900"}

\* The number of context words kept for a number.
CONTEXT_WORDS == 5

\* The number found at piece k of a section, with the context words around
\* the first place the section holds that number.
Mention(text, k, section) ==
  LET num == text[k]
      index == CHOOSE m \in 1..Len(text) :
                 text[m] = num /\ \A b \in 1..(m - 1) : text[b] # num
      around == LowerText(SubSeq(text, 1, index - 1)
                            \o SubSeq(text, index + 1, Len(text)))
      long == SelectSeq(around, LAMBDA w : Len(w) > SUBJECT_WORD_LENGTH)
  IN  [value |-> num, section |-> section,
       context |-> SubSeq(long, 1, IF Len(long) < CONTEXT_WORDS
                                     THEN Len(long) ELSE CONTEXT_WORDS)]

\* The numbers of one section that are filed under a context.
Mentions(text, section) ==
  LET at == SelectSeq([k \in 1..Len(text) |-> k],
                      LAMBDA k : /\ text[k] \in Numerals
                                 /\ Mention(text, k, section).context # << >>)
  IN  [m \in 1..Len(at) |-> Mention(text, at[m], section)]

\* detectNumericalInconsistencies(sections)
detectNumericalInconsistencies(sections) ==
  LET occ == Flatten([i \in 1..Len(sections) |-> Mentions(sections[i], i - 1)])
      contexts == Dedup([k \in 1..Len(occ) |-> occ[k].context])
      issue(context) ==
        LET occurrences == SelectSeq(occ, LAMBDA o : o.context = context)
            values == Dedup([k \in 1..Len(occurrences) |-> occurrences[k].value])
        IN  IF Len(occurrences) > 1 /\ Len(values) > 1
              THEN << [section1 |-> occurrences[1].section,
                       section2 |-> occurrences[Len(occurrences)].section,
                       claim1 |-> << values[1], context >>,
                       claim2 |-> << values[2], context >>,
                       type |-> "numerical", confidence |-> 60] >>
              ELSE << >>
  IN  Flatten([k \in 1..Len(contexts) |-> issue(contexts[k])])

\* calculateConfidence(sectionCount, contradictionCount)
calculateConfidence(sectionCount, contradictionCount) ==
  LET sized == 50 + (IF sectionCount >= 5 THEN 20
                     ELSE IF sectionCount >= 3 THEN 10 ELSE 0)
      value == sized + (IF contradictionCount > 0 THEN 10 ELSE 0)
      margin == 15
  IN  [value    |-> IF value > 85 THEN 85 ELSE value,
       interval |-> << IF value - margin < 0 THEN 0 ELSE value - margin,
                       IF value + margin > 100 THEN 100 ELSE value + margin >>,
       method   |-> "heuristic"]

\* createMinimalResult as faulty: it reports a drift.
createMinimalResultDrifting(sections) ==
  [sections |-> sections, avgSimilarity |-> 100, stable |-> TRUE,
   drift |-> TRUE, contradictions |-> << >>,
   confidence |-> [value |-> 30, interval |-> << 10, 50 >>,
                   method |-> "heuristic"],
   insufficient |-> TRUE]

\* createMinimalResult(sections)
createMinimalResult(sections) ==
  [sections |-> sections, avgSimilarity |-> 100, stable |-> TRUE,
   drift |-> FALSE, contradictions |-> << >>,
   confidence |-> [value |-> 30, interval |-> << 10, 50 >>,
                   method |-> "heuristic"],
   insufficient |-> TRUE]

\* The drift score of check(), in tenths.
driftScore(measured, numericalInconsistencies) ==
    (IF measured.sentimentDrift THEN 3 ELSE 0)
  + (IF measured.styleDrift THEN 3 ELSE 0)
  + (IF measured.lengthDrift THEN 2 ELSE 0)
  + (IF Len(numericalInconsistencies) > 0 THEN 2 ELSE 0)
  + (IF measured.avgSimilarity < 50 THEN 3 ELSE 0)

\* The synthetic entry of a drift between the first and the last section.
DriftEntry(sections, what, type) ==
  [section1 |-> 0, section2 |-> Len(sections) - 1,
   claim1 |-> << "Initial", what >>, claim2 |-> << "Final", what >>,
   type |-> type, confidence |-> 70]

\* ConsistencyEngine.check on the sections of the content; measured holds
\* what the similarity matrix and the sentiment, style and length detectors
\* find in them.
check(sections, measured) ==
  IF Len(sections) < 2 THEN createMinimalResult(sections)
  ELSE
    LET avgSimilarity == measured.avgSimilarity
        contradictions == detectContradictions(sections)
        numericalInconsistencies == detectNumericalInconsistencies(sections)
        score == driftScore(measured, numericalInconsistencies)
        stable == avgSimilarity > 60 /\ Len(contradictions) = 0 /\ score < 3
        drift == score >= 4 \/ avgSimilarity < 40
        confidence == calculateConfidence(Len(sections), Len(contradictions))
    IN  [sections |-> sections, avgSimilarity |-> avgSimilarity,
         stable |-> stable, drift |-> drift,
         contradictions |->
           contradictions
             \o (IF measured.sentimentDrift
                   THEN << DriftEntry(sections, "sentiment", "sentiment_drift") >>
                   ELSE << >>)
             \o (IF measured.styleDrift
                   THEN << DriftEntry(sections, "style", "style_drift") >>
                   ELSE << >>)
             \o numericalInconsistencies,
         confidence |-> confidence,
         insufficient |-> FALSE]

\* The sections the contents are made of.
SectionPool ==
  { << "The", "budget", "is", "500", "dollars", "worldwide" >>,
    << "the", "budget", "is", "900", "dollars", "worldwide" >>,
    << "the", "budget", "is", "not", "500", "dollars", "worldwide" >>,
    << "only", "3", "of", "us", "stay" >>,
    << "the", "budget", "can", "cover", "travel", "worldwide" >>,
    << "the", "budget", "cannot", "cover", "travel", "worldwide" >> }

\* The average similarities around the thresholds of check().
Similarities ==
  {0, 100} \cup UNION {{t - Slack, t, t + Slack} : t \in {40, 50, 60}}

\* What the detectors can find in two sections or more.
Measurements ==
  [avgSimilarity : Similarities, sentimentDrift : BOOLEAN,
   styleDrift : BOOLEAN, lengthDrift : BOOLEAN]

\* A caller awaits check() on the content it holds.
Check ==
  /\ consist.result = None
  /\ consist' = [consist EXCEPT
                   !.result = Some(check(consist.sections, consist.measured))]
  /\ UNCHANGED << fs, env, plugins, calls, loadOptions, loaded, http, monitor,
                  contra, soloVars, auditVars, facilities >>

InitConsistency ==
  /\ fs = EmptyObj
  /\ env = Env("", << >>, "")
  /\ plugins = 0
  /\ calls = [c \in Calls |-> IdleCall]
  /\ loadOptions = None
  /\ loaded = None
  /\ http = HttpIdle
  /\ monitor = MonitorIdle
  /\ contra = ContraIdle
  /\ SoloIdle
  /\ AuditIdle
  /\ FacilitiesIdle
  /\ \E n \in 0..MaxSections :
       \E sections \in [1..n -> SectionPool] :
         \E measured \in Measurements :
           /\ n < 2 => measured = ConsistIdle.measured
           /\ consist = [sections |-> sections, measured |-> measured,
                         result |-> None]

NextConsistency == Check

SpecConsistency == InitConsistency /\ [][NextConsistency]_vars

\* C20: a returned ConsistencyResult has stable true only if its
\* contradictions list is empty, its avgSimilarity is greater than 0.6 and
\* the drift score of the call is below 0.3.
C20_StableOnlyIfNoContradictions ==
  consist.result # None =>
    LET result == consist.result[1]
    IN  result.stable =>
          /\ result.contradictions = << >>
          /\ result.avgSimilarity > 60
          /\ driftScore(consist.measured,
                        detectNumericalInconsistencies(consist.sections)) < 3

\* check() reported a logical contradiction between sections i and j.
ReportsLogical(result, i, j) ==
  \E k \in 1..Len(result.contradictions) :
    /\ result.contradictions[k].type = "logical"
    /\ result.contradictions[k].section1 = i - 1
    /\ result.contradictions[k].section2 = j - 1

\* Two texts share at least two words longer than four characters.
ShareSubject(text1, text2) ==
  Cardinality(SubjectWords(LowerText(text1)) \cap SubjectWords(LowerText(text2)))
    >= SUBJECT_OVERLAP

\* The claim-level detector on two claims made of the given texts.
ClaimLevelContradiction(text1, text2) ==
  detectContradiction([text |-> text1], [text |-> text2])

\* C21: for any two sections sharing at least two words longer than four
\* characters, the consistency engine reports a logical contradiction
\* between them if and only if the claim-level detectContradiction finds one
\* between claims with the same texts.
C21_SameContradictionsAsClaimLevel ==
  (consist.result # None /\ Len(consist.sections) >= 2) =>
    \A i, j \in 1..Len(consist.sections) :
      (i < j /\ ShareSubject(consist.sections[i], consist.sections[j])) =>
        (ReportsLogical(consist.result[1], i, j)
           <=> ClaimLevelContradiction(consist.sections[i], consist.sections[j]))

\* C30: no returned ConsistencyResult has stable and drift both true.
C30_NeverStableAndDrifting ==
  consist.result # None =>
    ~(consist.result[1].stable /\ consist.result[1].drift)

\* A stable result was returned for three sections in which one drift signal
\* was found.
C30_Witness ==
  /\ consist.result # None
  /\ Len(consist.sections) >= 3
  /\ consist.measured.lengthDrift
  /\ consist.result[1].stable
  /\ ~consist.result[1].drift

-----------------------------------------------------------------------------
\* The claims about the verdict, the failures and the request scope of verify()

\* The risk computed from the results of the engines the call ran, and from
\* nothing else.
RiskOfEngines(call) ==
  calculate([e \in Engines |->
               IF Member(e, call.enginesUsed)
                 THEN Some(EngineResult(e, call.options.content))
                 ELSE None])

\* The operations of a call from the end of the plugins to its return, but
\* for the warning of a drift.
OpsAfterPlugins ==
  << "logger.endRequest", "logger.info", "audit.logVerification",
     "baseline.updateBaseline", "baseline.checkDrift" >>

\* The operations a call has made once the first n are left out.
OpsFrom(call, n) == SubSeq(call.ops, n + 1, Len(call.ops))

\* C22: once the plugins have been executed, whatever they returned or threw
\* and whatever the baseline storage holds or the drift check finds, the call
\* does not fail, and the risk of the VerifyResult it returns is the risk of
\* its engine results alone; a drift adds nothing but a logged warning.
C22_VerdictFromEnginesAlone ==
  LET call == calls[1]
  IN  /\ call.pluginsRan # {} => call.pc \in {"awaitPlugins", "returned"}
      /\ call.pc = "returned" =>
           /\ call.outcome.kind = "VerifyResult"
           /\ call.outcome.result.risk = RiskOfEngines(call)
           /\ \E n \in 0..Len(call.ops) :
                OpsFrom(call, n) \in {OpsAfterPlugins,
                                      Append(OpsAfterPlugins, "logger.warn")}

\* A call returned after a plugin returned a result, another threw and a
\* drift was warned of.
C22_Witness ==
  LET call == calls[1]
  IN  /\ call.pc = "returned"
      /\ Len(call.pluginResults) > 0
      /\ call.pluginsThrew # {}
      /\ call.ops[Len(call.ops)] = "logger.warn"
      /\ baseline.checks > 0

\* The error kinds verify() documents, with the codes of a validation error.
DocumentedFailure(outcome) ==
  \/ outcome.kind = "PrivacyViolationError"
  \/ /\ outcome.kind = "ValidationError"
     /\ outcome.code \in {"EMPTY_INPUT", "INVALID_ENCODING", "CONTENT_TOO_LARGE"}
  \/ outcome.kind = "VerificationError"

\* C27: a verify() call that fails fails with a privacy violation, an
\* input-validation error (EMPTY_INPUT, INVALID_ENCODING or
\* CONTENT_TOO_LARGE) or a verification error, whatever the content and the
\* resolved config, a tier name outside the four tiers included.
C27_OnlyDocumentedFailures ==
  \A c \in Calls :
    calls[c].pc = "threw" => DocumentedFailure(calls[c].outcome)

\* The call opened a request scope on the structured logger.
OpenedScope(call) == Member("logger.startRequest", call.ops)

\* The call closed its request scope.
ClosedScope(call) == Member("logger.endRequest", call.ops)

\* C28: a verify() call that has settled, by returning or by throwing, and
\* had opened a request scope with startRequest() has closed it with
\* endRequest().
C28_ScopeClosedWhenSettled ==
  \A c \in Calls :
    (calls[c].pc \in {"returned", "threw"} /\ OpenedScope(calls[c]))
      => ClosedScope(calls[c])

\* C25: getRecent(n) returns, for every n >= 0, at most n entries: the
\* min(n, number of stored entries) most recently logged entries, in the
\* order they were logged.
C25_AtMostNMostRecent ==
  [][(ret.recent = None /\ ret'.recent # None) =>
       LET asked == ret'.recent[1]
           stored == Len(logger[1].entries)
           expected == IF asked.count < stored THEN asked.count ELSE stored
       IN  /\ Len(asked.entries) <= asked.count
           /\ Len(asked.entries) = expected
           /\ \A k \in 1..Len(asked.entries) :
                asked.entries[k] = logger[1].entries[stored - Len(asked.entries) + k]]_vars

-----------------------------------------------------------------------------
\* The default audit logger (getAuditLogger, auditLog).  logger holds the
\* AuditLogger that defaultLogger points to, singleton.instance its identity
\* (0 for null): the instances are numbered as they are constructed.

\* The most AuditLoggers getAuditLogger constructs in a behaviour.
MaxLoggers == 2

\* The config arguments of getAuditLogger; None is the call without argument.
SingletonArgs ==
  { None, Some(EmptyObj), Some([enabled |-> TRUE]),
    Some([enabled |-> TRUE, outputPath |-> NoPath]) }

\* getAuditLogger(config): a new AuditLogger is constructed, and becomes the
\* default one, if there is none yet or if a config is given.
getAuditLogger(single, lg, config, day) ==
  IF single.instance = 0 \/ config # None
    THEN [single |-> [instance |-> single.made + 1, made |-> single.made + 1,
                      got |-> Some(single.made + 1)],
          logger |-> Some(AuditLogger(IF config = None THEN EmptyObj ELSE config[1],
                                      day))]
    ELSE [single |-> [single EXCEPT !.got = Some(single.instance)],
          logger |-> lg]

\* A caller calls getAuditLogger.
GetAuditLogger ==
  /\ \E config \in SingletonArgs :
       LET r == getAuditLogger(singleton, logger, config, today)
       IN  /\ r.single.made <= MaxLoggers
           /\ singleton' = r.single
           /\ logger' = r.logger
  /\ UNCHANGED << fs, env, plugins, calls, loadOptions, loaded, http, monitor,
                  contra, consist, slog, report, polling, facilities,
                  today, disk, ret, kept >>

\* A caller calls auditLog: the entry is logged through getAuditLogger().
AuditLog ==
  /\ ret.logs < MaxLogs
  /\ \E fails \in BOOLEAN :
       LET g == getAuditLogger(singleton, logger, None, today)
           r == log(g.logger[1], "verify", ret.nextId, today, disk, fails)
       IN  /\ g.single.made <= MaxLoggers
           /\ singleton' = g.single
           /\ logger' = Some(r.logger)
           /\ disk' = r.disk
           /\ ret' = [ret EXCEPT !.logs = @ + 1, !.nextId = @ + 1,
                                 !.last = Some(r.returned)]
           /\ kept' = IF g.logger[1].config.enabled
                        THEN Append(kept, r.returned) ELSE kept
  /\ UNCHANGED << fs, env, plugins, calls, loadOptions, loaded, http, monitor,
                  contra, consist, slog, report, polling, facilities, today >>

InitSingleton ==
  /\ fs = EmptyObj
  /\ env = Env("", << >>, "")
  /\ plugins = 0
  /\ calls = [c \in Calls |-> IdleCall]
  /\ loadOptions = None
  /\ loaded = None
  /\ OthersIdle

NextSingleton == GetAuditLogger \/ AuditLog

SpecSingleton == InitSingleton /\ [][NextSingleton]_vars

\* C24: once the default audit logger has been constructed, every
\* getAuditLogger() call, with or without a config, returns that same
\* instance, and the entries logged through it stay visible in it.
C24_SameInstanceForever ==
  [][singleton.instance # 0 =>
       /\ singleton'.instance = singleton.instance
       /\ singleton'.got = Some(singleton.instance)
       /\ \A k \in 1..Len(logger[1].entries) :
            Member(logger[1].entries[k], logger'[1].entries)]_vars

-----------------------------------------------------------------------------
\* A /verify response in the clipboard monitor (server.ts formatHumanReadable,
\* monitor.js explainRisk).  risk.overall is counted in thousandths, the
\* monitor's risk score in tenths of a percent: the same number.

\* The most findings of a CSM6 result.
MaxFindings == 2

\* String.prototype.toUpperCase on the levels and severities.
toUpperCase(w) ==
  CASE w = "low" -> "LOW" [] w = "moderate" -> "MODERATE"
    [] w = "medium" -> "MEDIUM" [] w = "high" -> "HIGH"
    [] w = "critical" -> "CRITICAL" [] w = "info" -> "INFO"
    [] OTHER -> w

\* The verdict formatHumanReadable gives each risk level.
Verdict(level) ==
  CASE level = "low" -> "[PASS] SAFE TO USE"
    [] level = "moderate" -> "[WARN] REVIEW RECOMMENDED"
    [] level = "high" -> "[FAIL] HIGH RISK - CAUTION"
    [] level = "critical" -> "[BLOCK] CRITICAL - DO NOT USE"
    [] OTHER -> ""

\* formatHumanReadable(result): the findings are those of the CSM6 result,
\* each cut down to severity, message and category.
formatHumanReadable(result) ==
  LET findings == IF result.csm6 # None
                    THEN [k \in 1..Len(result.csm6[1].findings) |->
                            [severity |-> result.csm6[1].findings[k].severity,
                             message  |-> result.csm6[1].findings[k].message,
                             category |-> result.csm6[1].findings[k].category]]
                    ELSE << >>
  IN  [verdict   |-> Verdict(result.risk.level),
       riskLevel |-> toUpperCase(result.risk.level),
       riskScore |-> result.risk.overall,
       findings  |-> [k \in 1..Len(findings) |->
                        [severity |-> toUpperCase(findings[k].severity),
                         message  |-> findings[k].message,
                         category |-> findings[k].category]]]

\* The body of a successful /verify response.
VerifyResponse(result) ==
  [success |-> TRUE, summary |-> formatHumanReadable(result), result |-> result]

\* The suggestions explainRisk holds for each finding type, in its order.
SuggestionTypes == << "hallucination", "security", "consistency", "pii" >>

SuggestionsFor(type) ==
  CASE type = "hallucination" ->
         << "Verify factual claims with reliable sources",
            "Ask AI to cite sources for specific facts" >>
    [] type = "security" ->
         << "Remove or sanitize sensitive information",
            "Avoid using commands or code without review" >>
    [] type = "consistency" ->
         << "Check for contradictory statements",
            "Ask AI to clarify conflicting information" >>
    [] type = "pii" ->
         << "Remove personal identifiable information",
            "Use generic examples instead of real data" >>

\* The suggestions of a response without findings and a score over 15%.
GeneralSuggestions ==
  << "Ask AI to be more specific and factual",
     "Request sources for important claims",
     "Break complex responses into smaller parts" >>

\* The score, in tenths of a percent, over which they are given.
GENERAL_SUGGESTIONS_OVER == 150

\* f.type === type for a finding of the summary: false if it has no type.
TypeIs(f, type) == Has(f, "type") /\ f.type = type

\* explainRisk(result): the suggestions; the findings are told apart by
\* their type field.
explainRisk(response) ==
  LET riskScore == response.result.risk.overall
      findings == response.summary.findings
      some(type) == \E k \in 1..Len(findings) : TypeIs(findings[k], type)
  IN  [suggestions |->
         IF Len(findings) > 0
           THEN << "How to lower risk:" >>
                  \o Flatten([t \in 1..Len(SuggestionTypes) |->
                                IF some(SuggestionTypes[t])
                                  THEN SuggestionsFor(SuggestionTypes[t])
                                  ELSE << >>])
         ELSE IF riskScore > GENERAL_SUGGESTIONS_OVER
           THEN << "How to lower risk:" >> \o GeneralSuggestions
         ELSE << >>]

\* The findings a CSM6 result is made of.
FindingPool ==
  { [category |-> "security", severity |-> "high",
     message |-> "Possible prompt injection", id |-> "SEC-001"],
    [category |-> "privacy", severity |-> "medium",
     message |-> "Email address detected", id |-> "PRIV-001"],
    [category |-> "safety", severity |-> "low",
     message |-> "Unsafe advice", id |-> "SAFE-001"] }

\* The risks of the results.
RiskPool ==
  { [level |-> "low", overall |-> 100], [level |-> "low", overall |-> 151],
    [level |-> "moderate", overall |-> 400], [level |-> "high", overall |-> 600],
    [level |-> "critical", overall |-> 900] }

\* The server answers a /verify request whose verify() call returned.
Answer ==
  /\ report.result # None
  /\ report.response = None
  /\ report' = [report EXCEPT !.response = Some(VerifyResponse(report.result[1]))]
  /\ UNCHANGED << fs, env, plugins, calls, loadOptions, loaded, http, monitor,
                  contra, consist, singleton, slog, polling, auditVars, facilities >>

\* The monitor explains the response it received and prints the suggestions.
Explain ==
  /\ report.response # None
  /\ report.printed = None
  /\ report' = [report EXCEPT !.printed = Some(explainRisk(report.response[1]))]
  /\ UNCHANGED << fs, env, plugins, calls, loadOptions, loaded, http, monitor,
                  contra, consist, singleton, slog, polling, auditVars, facilities >>

InitReport ==
  /\ fs = EmptyObj
  /\ env = Env("", << >>, "")
  /\ plugins = 0
  /\ calls = [c \in Calls |-> IdleCall]
  /\ loadOptions = None
  /\ loaded = None
  /\ http = HttpIdle
  /\ monitor = MonitorIdle
  /\ contra = ContraIdle
  /\ consist = ConsistIdle
  /\ singleton = SingletonIdle
  /\ slog = SlogIdle
  /\ polling = PollingIdle
  /\ AuditIdle
  /\ FacilitiesIdle
  /\ \E risk \in RiskPool, n \in 0..MaxFindings :
       \E findings \in [1..n -> FindingPool] :
         report = [result |-> Some([risk |-> risk,
                                    csm6 |-> Some([findings |-> findings])]),
                   response |-> None, printed |-> None]

NextReport == Answer \/ Explain

SpecReport == InitReport /\ [][NextReport]_vars

\* The response carries a finding of the kind; a PII finding is one of the
\* privacy category.
CarriesFinding(response, kind) ==
  \E k \in 1..Len(response.summary.findings) :
    response.summary.findings[k].category =
      (IF kind = "pii" THEN "privacy" ELSE kind)

\* C26: when the /verify response carries a finding of a kind, the monitor
\* prints the "How to lower risk" suggestions of that kind.
C26_SuggestionsOfEachKindPresent ==
  report.printed # None =>
    \A t \in 1..Len(SuggestionTypes) :
      CarriesFinding(report.response[1], SuggestionTypes[t]) =>
        \A k \in 1..Len(SuggestionsFor(SuggestionTypes[t])) :
          Member(SuggestionsFor(SuggestionTypes[t])[k],
                 report.printed[1].suggestions)

-----------------------------------------------------------------------------
\* The overlapping callbacks of the monitor's interval (monitor.js 239-250).
\* setInterval fires every 500 ms whether or not the earlier callbacks have
\* finished; each callback spawns its own Get-Clipboard process and goes on
\* when that process ends, in no particular order.

\* The most times the user copies a text.
MaxCopies == 2

\* The texts the user copies: two that qualify and a short one.
CopiedTexts ==
  { [text |-> "answer", body |-> MONITOR_LENGTH + 1, pad |-> 0],
    [text |-> "other", body |-> MONITOR_LENGTH + 1, pad |-> 1],
    [text |-> "ok", body |-> 2, pad |-> 0] }

\* A text qualifies for a submission: not empty, longer than the limit.
Qualifies(clip) == clip.body > 0 /\ clip.body > MONITOR_LENGTH

\* The user copies a text other than the one in the clipboard.
CopyOther ==
  /\ polling.copies < MaxCopies
  /\ \E clip \in CopiedTexts :
       /\ [text |-> clip.text, body |-> clip.body]
            # [text |-> polling.clipboard.text, body |-> polling.clipboard.body]
       /\ polling' = [polling EXCEPT
                        !.clipboard = clip,
                        !.copies = @ + 1,
                        !.changes = IF Qualifies(clip) THEN @ + 1 ELSE @]
  /\ UNCHANGED << fs, env, plugins, calls, loadOptions, loaded, http, monitor,
                  contra, consist, singleton, slog, report, auditVars, facilities >>

\* The interval fires: a callback starts and spawns its Get-Clipboard process.
Fire ==
  /\ Len(polling.callbacks) < MaxPolls
  /\ polling' = [polling EXCEPT
                   !.callbacks = Append(@, [pc |-> "spawned",
                                            clipboard |-> [text |-> "", body |-> 0]])]
  /\ UNCHANGED << fs, env, plugins, calls, loadOptions, loaded, http, monitor,
                  contra, consist, singleton, slog, report, auditVars, facilities >>

\* The Get-Clipboard process of callback i reads the clipboard, or fails.
ReadClipboard(i) ==
  /\ polling.callbacks[i].pc = "spawned"
  /\ \E fails \in BOOLEAN :
       polling' = [polling EXCEPT
                     !.callbacks[i] =
                       [pc |-> "read",
                        clipboard |-> getClipboard(polling.clipboard, fails)]]
  /\ UNCHANGED << fs, env, plugins, calls, loadOptions, loaded, http, monitor,
                  contra, consist, singleton, slog, report, auditVars, facilities >>

\* The await of getClipboard() in callback i resumes: the test, and if it
\* passes the text is remembered and submitted to /verify, whose answer the
\* callback then awaits.
Resume(i) ==
  /\ polling.callbacks[i].pc = "read"
  /\ LET clipboard == polling.callbacks[i].clipboard
     IN  polling' =
           IF ShouldSubmit(clipboard, polling.lastClipboard)
             THEN [polling EXCEPT !.callbacks[i].pc = "verifying",
                                  !.lastClipboard = clipboard,
                                  !.submitted = Append(@, clipboard)]
             ELSE [polling EXCEPT !.callbacks[i].pc = "done"]
  /\ UNCHANGED << fs, env, plugins, calls, loadOptions, loaded, http, monitor,
                  contra, consist, singleton, slog, report, auditVars, facilities >>

InitPolling ==
  /\ fs = EmptyObj
  /\ env = Env("", << >>, "")
  /\ plugins = 0
  /\ calls = [c \in Calls |-> IdleCall]
  /\ loadOptions = None
  /\ loaded = None
  /\ OthersIdle

NextPolling ==
  \/ CopyOther
  \/ Fire
  \/ \E i \in 1..Len(polling.callbacks) : ReadClipboard(i)
  \/ \E i \in 1..Len(polling.callbacks) : Resume(i)

SpecPolling == InitPolling /\ [][NextPolling]_vars

\* C29: the number of submissions never exceeds the number of times the
\* clipboard content changed to a qualifying text.
C29_AtMostOneSubmissionPerChange ==
  Len(polling.submitted) <= polling.changes

-----------------------------------------------------------------------------
\* The request scopes of the structured logger (verify.ts 63-71, 190-199).
\* The logger's own code is not part of the sources at hand; it is modelled
\* from its description: one logger per process, startRequest() mints a
\* request id and starts a timer, endRequest() returns the milliseconds
\* elapsed on the timer.  verify() passes endRequest() nothing that names the
\* call, not even the request id it was given.

\* The most milliseconds that pass.
MaxTicks == 3

\* logger.startRequest(): a new request id, and the timer starts now.
startRequest(lg) ==
  [lg EXCEPT !.minted = @ + 1, !.timer = Some(lg.clock)]

\* logger.endRequest(): the milliseconds elapsed on the timer.
endRequest(lg) == lg.clock - lg.timer[1]

\* verify() of call c up to its first await: startTime, the request scope.
StartRequest(c) ==
  /\ slog.scopes[c].pc = "idle"
  /\ LET lg == startRequest(slog)
     IN  slog' = [lg EXCEPT !.scopes[c] =
                    [@ EXCEPT !.pc = "started",
                              !.requestId = lg.minted,
                              !.started = slog.clock]]
  /\ UNCHANGED << fs, env, plugins, calls, loadOptions, loaded, http, monitor,
                  contra, consist, singleton, report, polling, auditVars,
                  facilities >>

\* The engines of call c have answered: verify() resumes after its awaits.
AwaitEngines(c) ==
  /\ slog.scopes[c].pc = "started"
  /\ slog' = [slog EXCEPT !.scopes[c].pc = "awaited"]
  /\ UNCHANGED << fs, env, plugins, calls, loadOptions, loaded, http, monitor,
                  contra, consist, singleton, report, polling, auditVars,
                  facilities >>

\* verify() of call c from endTime on: endRequest(), and the duration that
\* is logged, endRequest() || (endTime - startTime).
EndRequest(c) ==
  /\ slog.scopes[c].pc = "awaited"
  /\ LET elapsed == endRequest(slog)
         own     == slog.clock - slog.scopes[c].started
     IN  slog' = [slog EXCEPT !.scopes[c] =
                    [@ EXCEPT !.pc = "ended",
                              !.ended = slog.clock,
                              !.elapsed = Some(elapsed),
                              !.duration = IF elapsed = 0 THEN own ELSE elapsed]]
  /\ UNCHANGED << fs, env, plugins, calls, loadOptions, loaded, http, monitor,
                  contra, consist, singleton, report, polling, auditVars,
                  facilities >>

\* A millisecond passes.
Millisecond ==
  /\ slog.clock < MaxTicks
  /\ slog' = [slog EXCEPT !.clock = @ + 1]
  /\ UNCHANGED << fs, env, plugins, calls, loadOptions, loaded, http, monitor,
                  contra, consist, singleton, report, polling, auditVars,
                  facilities >>

InitLogger ==
  /\ fs = EmptyObj
  /\ env = Env("", << >>, "")
  /\ plugins = 0
  /\ calls = [c \in Calls |-> IdleCall]
  /\ loadOptions = None
  /\ loaded = None
  /\ OthersIdle

NextLogger ==
  \/ \E c \in Calls : StartRequest(c)
  \/ \E c \in Calls : AwaitEngines(c)
  \/ \E c \in Calls : EndRequest(c)
  \/ Millisecond

SpecLogger == InitLogger /\ [][NextLogger]_vars

====
